---------------------------- MODULE Spec2Model ----------------------------
(***************************************************************************)
(* A model of the vocabulary extractor: the line-segmentation parser of    *)
(* scripts/create_anki_from_images.py (parse_english_vocabulary and the    *)
(* French/German branch of parse_vocabulary_lines), the deck writer        *)
(* create_anki_file, the deck reader load_anki_file of                     *)
(* scripts/validate_vocabulary.py, and the output-file handling of main.   *)
(*                                                                         *)
(* Text is modelled as TLA+ strings, one character per position.  Python's *)
(* str methods and the subset of the re module that the source uses are    *)
(* defined first; the program's own functions follow, under their own      *)
(* names.                                                                  *)
(***************************************************************************)
EXTENDS Integers, Sequences, FiniteSets, TLC

VARIABLES
    lines,        \* the text lines: the argument of the parser, all_text of main
    i,            \* parse_english_vocabulary: the cursor of the outer loop
    vocabulary,   \* the list of entries: the parser's local, main's local
    pc,           \* position in the function / in main
    last,         \* the branch that ended the latest iteration of the loop
    result,       \* the value returned by the call in progress
    run,          \* number of the invocation of the parser (1 or 2)
    first,        \* the value returned by invocation 1
    args,         \* main: the parsed command line
    folder,       \* main: the entries of the output folder, by name
    before,       \* the output folder as it was when the run started
    pending,      \* main: the entries that iterdir() has yet to yield
    written,      \* the names of the files the run has written
    deleted,      \* the names of the files the run has deleted
    stdout,       \* main: the messages printed
    exit_status,  \* main: the status the process ended with, -1 while it runs
    entries,      \* the value returned by load_anki_file
    results,      \* validate_vocabulary: the lists valid, suspicious and errors
    timeline,     \* validate_vocabulary: the translator calls, with what they returned, and the sleeps
    raw_text,     \* validate_vocabulary: the raw OCR text to cross-reference
    listing,      \* extract_all_images: the names os.listdir returns
    images,       \* extract_all_images: the sorted names of the images
    ocr_log,      \* extract_all_images: what each OCR call so far came to
    vocabulary_table, \* vocabulary_db: the rows of the table vocabulary
    source_name,  \* import_anki_file: the source of the file being imported
    imported,     \* import_anki_file: the rows inserted by the call
    skipped,      \* import_anki_file: the lines skipped as duplicates
    imports,      \* vocabulary_db: the calls of import_anki_file that returned
    corrections,  \* vocabulary_db: the rows of the table corrections
    queue,        \* interactive_correct: the rows fetched and not yet shown
    uncommitted,  \* interactive_correct: the updates of the open transaction
    session_log,  \* interactive_correct: the actions the user has entered
    now           \* vocabulary_db: CURRENT_TIMESTAMP

vars == <<lines, i, vocabulary, pc, last, result, run, first,
          args, folder, before, pending, written, deleted, stdout, exit_status, entries,
          results, timeline, raw_text, listing, images, ocr_log,
          vocabulary_table, source_name, imported, skipped, imports,
          corrections, queue, uncommitted, session_log, now>>

parser_vars == <<i, last, result, run, first>>
main_vars == <<args, folder, before, pending, written, deleted, stdout, exit_status>>
validate_vars == <<results, timeline, raw_text>>
extract_vars == <<listing, images, ocr_log>>
session_vars == <<corrections, queue, uncommitted, session_log, now>>
db_vars == <<vocabulary_table, source_name, imported, skipped, imports, session_vars>>
other_vars == <<validate_vars, extract_vars, db_vars>>

-----------------------------------------------------------------------------
(* Characters and Python's str methods.                                    *)

CharsOf(s) == {SubSeq(s, k, k) : k \in 1..Len(s)}

AsciiLower == CharsOf("abcdefghijklmnopqrstuvwxyz")
AsciiUpper == CharsOf("ABCDEFGHIJKLMNOPQRSTUVWXYZ")
AsciiLetter == AsciiLower \cup AsciiUpper
Digit == CharsOf("0123456789")
\* str.strip() with no argument and the regex class \s
Whitespace == {" ", "\t", "\n", "\r", "\f"}
\* Non-ASCII letters that occur in the lines of the model: c.islower()
OtherLower == CharsOf("äöüßæéà")
\* c.isupper()
OtherUpper == CharsOf("ÄÖÜ")
\* Letters without case (the CJK characters the source file spells its
\* German letters with): c.isalpha(), neither islower() nor isupper()
OtherCaseless == CharsOf("盲枚芒毛没莽忙")
\* the regex class \w
WordChar == AsciiLetter \cup Digit \cup {"_"} \cup OtherLower \cup OtherUpper \cup OtherCaseless

SetMax(S) == CHOOSE x \in S : \A y \in S : y <= x
SetMin(S) == CHOOSE x \in S : \A y \in S : x <= y

\* s[p] with Python's 0-based index
CharAt(s, p) == SubSeq(s, p + 1, p + 1)

\* s[a:b]
Slice(s, a, b) == SubSeq(s, a + 1, b)

islower(c) == c \in AsciiLower \cup OtherLower
isupper(c) == c \in AsciiUpper \cup OtherUpper
\* s.isalpha()
isalpha(s) == Len(s) > 0 /\ \A k \in 1..Len(s) : SubSeq(s, k, k) \in WordChar \ (Digit \cup {"_"})

IndexIn(c, s) == CHOOSE k \in 1..Len(s) : SubSeq(s, k, k) = c

LowerChar(c) ==
    IF c \in AsciiUpper
    THEN CharAt("abcdefghijklmnopqrstuvwxyz", IndexIn(c, "ABCDEFGHIJKLMNOPQRSTUVWXYZ") - 1)
    ELSE IF c \in OtherUpper THEN CharAt("äöü", IndexIn(c, "ÄÖÜ") - 1)
    ELSE c

RECURSIVE lower(_)
\* s.lower()
lower(s) == IF s = "" THEN "" ELSE LowerChar(Head(s)) \o lower(Tail(s))

\* s.startswith(t)
startswith(s, t) == Len(t) <= Len(s) /\ SubSeq(s, 1, Len(t)) = t
\* s.endswith(t)
endswith(s, t) == Len(t) <= Len(s) /\ SubSeq(s, Len(s) - Len(t) + 1, Len(s)) = t
\* t in s
contains(s, t) == \E k \in 0..(Len(s) - Len(t)) : SubSeq(s, k + 1, k + Len(t)) = t
\* s.count(c) for a single character c
count(s, c) == Cardinality({k \in 1..Len(s) : SubSeq(s, k, k) = c})

\* s.lstrip(chars), s.rstrip(chars), s.strip(chars): chars given as a set
lstripSet(s, C) ==
    LET keep == {k \in 1..Len(s) : SubSeq(s, k, k) \notin C}
    IN  IF keep = {} THEN "" ELSE SubSeq(s, SetMin(keep), Len(s))
rstripSet(s, C) ==
    LET keep == {k \in 1..Len(s) : SubSeq(s, k, k) \notin C}
    IN  IF keep = {} THEN "" ELSE SubSeq(s, 1, SetMax(keep))
stripSet(s, C) == lstripSet(rstripSet(s, C), C)
\* s.strip()
strip(s) == stripSet(s, Whitespace)

RECURSIVE splitFrom(_, _)
splitFrom(s, p) ==
    LET starts == {k \in (p + 1)..Len(s) : SubSeq(s, k, k) \notin Whitespace}
    IN  IF starts = {} THEN <<>>
        ELSE LET a == SetMin(starts)
                 stops == {k \in a..Len(s) : SubSeq(s, k, k) \in Whitespace}
                 b == IF stops = {} THEN Len(s) + 1 ELSE SetMin(stops)
             IN  <<SubSeq(s, a, b - 1)>> \o splitFrom(s, b - 1)
\* s.split(): the whitespace-separated tokens
split(s) == splitFrom(s, 0)

RECURSIVE join(_, _)
\* sep.join(parts)
join(sep, parts) ==
    IF Len(parts) = 0 THEN ""
    ELSE IF Len(parts) = 1 THEN parts[1]
    ELSE parts[1] \o sep \o join(sep, Tail(parts))

Range(f) == {f[k] : k \in DOMAIN f}

-----------------------------------------------------------------------------
(* Python's re module, for the constructs the source uses.  A pattern is a *)
(* tree; Ends(r, s, P) is the set of positions at which a match of r that  *)
(* starts at a position of P can end.                                      *)

Cls(S) == <<"cls", S>>            \* [...]  a character of S
NotCls(S) == <<"ncls", S>>        \* [^...] a character not in S
Lit(t) == <<"lit", t>>            \* literal text
ILit(t) == <<"ilit", t>>          \* literal text under re.IGNORECASE
Cat(rs) == <<"cat", rs>>          \* concatenation
Alt(rs) == <<"alt", rs>>          \* a|b|...
Star(r) == <<"star", r>>          \* r*  (and r*?)
Plus(r) == <<"plus", r>>          \* r+  (and r+?)
Opt(r) == <<"opt", r>>            \* r?
Bol == <<"bol">>                  \* ^
Eol == <<"eol">>                  \* $
WordBoundary == <<"wb">>          \* \b
AnyChar == <<"any">>              \* .

IsWordAt(s, p) == p >= 0 /\ p < Len(s) /\ CharAt(s, p) \in WordChar

RECURSIVE Ends(_, _, _)
RECURSIVE EndsCat(_, _, _, _)
RECURSIVE Closure(_, _, _, _)

Ends(r, s, P) ==
    CASE r[1] = "cls"  -> {p + 1 : p \in {q \in P : q < Len(s) /\ CharAt(s, q) \in r[2]}}
      [] r[1] = "ncls" -> {p + 1 : p \in {q \in P : q < Len(s) /\ CharAt(s, q) \notin r[2]}}
      [] r[1] = "any"  -> {p + 1 : p \in {q \in P : q < Len(s) /\ CharAt(s, q) # "\n"}}
      [] r[1] = "lit"  -> {p + Len(r[2]) : p \in {q \in P : q + Len(r[2]) <= Len(s)
                                                   /\ Slice(s, q, q + Len(r[2])) = r[2]}}
      [] r[1] = "ilit" -> {p + Len(r[2]) : p \in {q \in P : q + Len(r[2]) <= Len(s)
                                                   /\ lower(Slice(s, q, q + Len(r[2]))) = lower(r[2])}}
      [] r[1] = "cat"  -> EndsCat(r[2], 1, s, P)
      [] r[1] = "alt"  -> UNION {Ends(r[2][k], s, P) : k \in DOMAIN r[2]}
      [] r[1] = "star" -> Closure(r[2], s, P, P)
      [] r[1] = "plus" -> LET F == Ends(r[2], s, P) IN Closure(r[2], s, F, F)
      [] r[1] = "opt"  -> P \cup Ends(r[2], s, P)
      [] r[1] = "bol"  -> P \cap {0}
      [] r[1] = "eol"  -> {p \in P : p = Len(s) \/ (p = Len(s) - 1 /\ CharAt(s, p) = "\n")}
      [] r[1] = "wb"   -> {p \in P : IsWordAt(s, p - 1) # IsWordAt(s, p)}

EndsCat(rs, k, s, P) ==
    IF k > Len(rs) \/ P = {} THEN P ELSE EndsCat(rs, k + 1, s, Ends(rs[k], s, P))

Closure(r, s, Done, Frontier) ==
    LET New == Ends(r, s, Frontier) \ Done
    IN  IF New = {} THEN Done ELSE Closure(r, s, Done \cup New, New)

\* re.match(r, s) is not None
ReMatch(r, s) == Ends(r, s, {0}) # {}
\* re.search(r, s) is not None
ReSearch(r, s) == Ends(r, s, 0..Len(s)) # {}

\* The span <<a, b>> of the group of a pattern pre(grp)post matched from
\* position `start`, or <<>> when the pattern does not match there.  pre is
\* greedy; grp is a character followed by a lazy (greedy) repetition, so
\* the regex engine tries its shortest (longest) extent first.
GroupEnds(grp, post, s, p) == {q \in Ends(grp, s, {p}) : Ends(post, s, {q}) # {}}

GroupPick(lazy, p, cand) == <<p, IF lazy THEN SetMin(cand) ELSE SetMax(cand)>>

GroupAt(grp, lazy, post, s, ps) ==
    IF ps = {} THEN <<>>
    ELSE GroupPick(lazy, SetMax(ps), GroupEnds(grp, post, s, SetMax(ps)))

GroupSpan(pre, grp, lazy, post, s, start) ==
    GroupAt(grp, lazy, post, s, {p \in Ends(pre, s, {start}) : GroupEnds(grp, post, s, p) # {}})

-----------------------------------------------------------------------------
(* parse_english_vocabulary: the word lists.  The source file spells its   *)
(* German letters with the characters kept here; of each list the members  *)
(* that a TLA+ string can hold are kept, and the others contain a          *)
(* character that no line of the model contains.                           *)

Ws == Cls(Whitespace)
\* [\*"\d\s]*
Marks == Star(Cls({"*", "\""} \cup Digit \cup Whitespace))
\* [\*"\d\s\']*
MarksQuote == Star(Cls({"*", "\"", "'"} \cup Digit \cup Whitespace))
\* \[[^\]]+\]
Bracket == Cat(<<Lit("["), Plus(NotCls({"]"})), Lit("]")>>)
\* [a-zA-Z][a-zA-Z\s\'\-\(\)\.\/\+\,\?!]+  (lazy or greedy by its use)
PhraseWide == Cat(<<Cls(AsciiLetter), Plus(Cls(AsciiLetter \cup Whitespace \cup CharsOf("'-()./+,?!")))>>)
\* [a-zA-Z][a-zA-Z\s\'\-]+
PhraseNarrow == Cat(<<Cls(AsciiLetter), Plus(Cls(AsciiLetter \cup Whitespace \cup CharsOf("'-")))>>)

skip_patterns ==
    << Cat(<<Bol, Plus(Cls(Digit)), Eol>>),
       Cat(<<Bol, ILit("one hundred")>>),
       Cat(<<Bol, ILit("two hundred")>>),
       Cat(<<Bol, ILit("three hundred")>>),
       Cat(<<Bol, ILit("Unit "), Plus(Cls(Digit))>>),
       Cat(<<Bol, ILit("Check-in"), Eol>>),
       Cat(<<Bol, ILit("Vocabulary"), Eol>>),
       Cat(<<Bol, ILit("Media collocations"), Eol>>),
       Cat(<<Bol, ILit("Media"), Eol>>),
       Cat(<<Bol, ILit("Verb"), Eol>>),
       Cat(<<Bol, ILit("Collocations"), Eol>>),
       Cat(<<Bol, ILit("Translation"), Eol>>),
       Cat(<<Bol, ILit("print media"), Eol>>),
       Cat(<<Bol, ILit("TV"), Eol>>),
       Cat(<<Bol, ILit("radio"), Eol>>),
       Cat(<<Bol, ILit("online media"), Eol>>),
       Cat(<<Bol, ILit("social media"), Eol>>),
       Cat(<<Bol, ILit("Describing developments"), Eol>>),
       Cat(<<Bol, ILit("Adjective collocations"), Eol>>),
       Cat(<<Bol, ILit("Nouns and adjectives"), Eol>>),
       Cat(<<Bol, ILit("Nouns and verbs with the same form"), Eol>>),
       Cat(<<Bol, ILit("Skills:")>>),
       Cat(<<Bol, ILit("Unit task:")>>),
       Cat(<<Bol, ILit("Story:")>>),
       Cat(<<Bol, ILit("Across cultures")>>),
       Cat(<<Bol, ILit("Focus "), Plus(Cls(Digit))>>),
       Cat(<<Bol, ILit("Station "), Plus(Cls(Digit))>>) >>

german_indicators == {"盲", "枚"}

german_starters ==
    { "der ", "die ", "das ", "ein ", "eine ", "etw.", "jdn.", "jdm.", "jmd.",
      "sich ", "(sich)", "(tun)", "(zu)", "(mit)", "(auf)", "(an)",
      "anderen", "anderer", "Meinung", "nicht", "sein; ", "haben; " }

\* Under re.match every pattern is anchored at the start of the text,
\* with or without a leading ^.
skip_line_patterns ==
    << Cat(<<Bol, Lit("Fr.")>>),
       Cat(<<Bol, Lit("Lat.")>>),
       Cat(<<Bol, Lit("!")>>),
       Cat(<<Bol, Lit("->")>>),
       Cat(<<Bol, Plus(Cls(WordChar)), Lit(" ->")>>),
       Cat(<<Bol, Plus(Cls(AsciiLower)), Lit(" = "), Plus(Cls(AsciiLower))>>),
       Cat(<<Bol, Plus(Cls(AsciiLower)), Lit(" 芦")>>),
       Cat(<<Cls(Digit), Cls(Digit), Cls(Digit), Eol>>),
       Cat(<<Bol, Lit("[")>>),
       Cat(<<Bol, Lit("one hundred")>>),
       Cat(<<Bol, Lit("two hundred")>>),
       Bracket,
       Cat(<<Bol, Lit("to me ")>>),
       Cat(<<Bol, Lit("to you ")>>),
       Cat(<<Bol, Lit("to him ")>>),
       Cat(<<Bol, Lit("to her ")>>) >>

skip_substrings == {"->", "芦", "禄", " = ", "] (pl)", "(pl.)", "(sing.)"}

english_sentence_starters ==
    { "I ", "I'm ", "I've ", "I'd ", "I'll ",
      "You ", "You're ", "You've ", "You'd ", "You'll ",
      "He ", "He's ", "He'd ", "He'll ", "She ", "She's ", "She'd ", "She'll ",
      "We ", "We're ", "We've ", "We'd ", "We'll ",
      "They ", "They're ", "They've ", "They'd ", "They'll ",
      "It ", "It's ", "It'd ", "It'll ", "Its ",
      "My ", "Your ", "His ", "Her ", "Our ", "Their ",
      "The ", "A ", "An ", "Some ", "Any ", "This ", "That ", "These ", "Those ",
      "If ", "When ", "Where ", "What ", "Why ", "How ", "Who ",
      "Are ", "Is ", "Was ", "Were ", "Do ", "Does ", "Did ",
      "Have ", "Has ", "Had ", "Can ", "Could ", "Will ", "Would ", "Should ",
      "Never ", "Always ", "Just ", "With ", "As ", "To ", "For ", "From ",
      "Arms ", "Sports ", "There " }

\* any(re.match(p, text) for p in patterns)
MatchesAny(patterns, text) == \E k \in DOMAIN patterns : ReMatch(patterns[k], text)

should_skip_line(text) ==
    \/ text = ""
    \/ \E sub \in skip_substrings : contains(text, sub)
    \/ MatchesAny(skip_line_patterns, text)

\* re.match(r'^to [a-z]+', text)
ToVerb == Cat(<<Bol, Lit("to "), Plus(Cls(AsciiLower))>>)

german_patterns == {"ss", "ck", "sch", "tzt", "ngen", "ung", "heit", "keit", "rden", "eich"}

common_german_words ==
    { "werden", "haben", "machen", "gehen", "kommen", "nehmen",
      "sehen", "geben", "wissen", "k枚nnen", "wollen",
      "sollen", "lassen", "bleiben", "finden", "denken",
      "vergleichbar", "digital", "blond" }

\* is_likely_german without the rule of lines 264-266 for capitalised lines
is_likely_german_no_capitals(text) ==
    IF text = "" \/ Len(text) < 2 THEN FALSE
    ELSE IF should_skip_line(text) THEN FALSE
    ELSE IF \E c \in german_indicators : contains(text, c) THEN TRUE
    ELSE IF \E s \in german_starters : startswith(text, s) THEN TRUE
    ELSE IF ReMatch(ToVerb, text) THEN FALSE
    ELSE IF /\ islower(CharAt(text, 0))
            /\ Len(text) < 50
            /\ (contains(text, ";") \/ contains(text, "/")) THEN TRUE
    ELSE FALSE

is_likely_german(text) ==
    IF text = "" \/ Len(text) < 2 THEN FALSE
    ELSE IF should_skip_line(text) THEN FALSE
    ELSE IF \E c \in german_indicators : contains(text, c) THEN TRUE
    ELSE IF \E s \in german_starters : startswith(text, s) THEN TRUE
    ELSE IF ReMatch(ToVerb, text) THEN FALSE
    ELSE IF /\ isupper(CharAt(text, 0))
            /\ Len(text) < 40
            /\ ~ \E s \in english_sentence_starters : startswith(text, s) THEN TRUE
    ELSE IF /\ islower(CharAt(text, 0))
            /\ Len(text) < 50
            /\ (contains(text, ";") \/ contains(text, "/")) THEN TRUE
    ELSE IF /\ islower(CharAt(text, 0))
            /\ Len(text) < 25
            /\ Len(split(text)) = 1
            /\ \/ \E p \in german_patterns : contains(lower(text), p)
               \/ lower(text) \in common_german_words THEN TRUE
    ELSE FALSE

is_english_sentence(text) ==
    IF text = "" THEN FALSE
    ELSE Len(text) > 30 /\ \E s \in english_sentence_starters : startswith(text, s)

is_continuation(text) ==
    IF text = "" \/ Len(text) < 2 THEN FALSE
    ELSE IF should_skip_line(text) THEN FALSE
    ELSE IF ReMatch(ToVerb, text) THEN FALSE
    ELSE /\ (islower(CharAt(text, 0)) \/ \E c \in german_indicators : contains(text, c))
         /\ Len(text) < 50
         /\ ~ is_english_sentence(text)

-----------------------------------------------------------------------------
(* parse_english_vocabulary: the patterns tried at the cursor.  A match    *)
(* object is modelled by the tuple of its groups, None by <<>>.            *)

None == <<>>

\* re.match of ^pre(grp)post: <<group(1)>> or None
GroupText(s, sp) == IF sp = <<>> THEN None ELSE <<Slice(s, sp[1], sp[2])>>

MatchGroup(pre, grp, lazy, post, s) == GroupText(s, GroupSpan(pre, grp, lazy, post, s, 0))

\* lines[k].strip()
Line(ls, k) == strip(ls[k + 1])

\* for pattern in skip_patterns: re.match(pattern, line, re.IGNORECASE)
IsSectionHeader(line) == MatchesAny(skip_patterns, line)

\* (?:\s*\((?:pl|sing)\.\?\)?)?
PluralTailA == Opt(Cat(<<Star(Ws), Lit("("), Alt(<<Lit("pl"), Lit("sing")>>), Lit("."), Lit("?"), Opt(Lit(")"))>>))
\* (?:\((?:pl|sing)\.?\))?
PluralTailB == Opt(Cat(<<Lit("("), Alt(<<Lit("pl"), Lit("sing")>>), Opt(Lit(".")), Lit(")")>>))

\* "Pattern 1": the three regular expressions tried in turn for a headword
\* with its annotation on the same line
\* a = re.match(..); if not a: a = re.match(..); if not a: a = re.match(..)
FirstMatch(m1, m2, m3) == IF m1 # None THEN m1 ELSE IF m2 # None THEN m2 ELSE m3

SameLineMatch(line) ==
    FirstMatch(
        MatchGroup(Marks, PhraseWide, TRUE,
            Cat(<<Star(Ws), Bracket, Opt(Lit("]")), PluralTailA, Eol>>), line),
        MatchGroup(Marks,
            Cat(<<Cls(AsciiLetter), Plus(Cls(AsciiLetter \cup Whitespace \cup CharsOf("'-,")))>>), FALSE,
            Cat(<<Star(Ws), Bracket, Opt(Lit("]")),
                  Opt(Cat(<<Lit(","), Star(Ws), Plus(Cls(WordChar)), Star(Ws), Bracket, Opt(Lit("]"))>>)),
                  Star(Ws), PluralTailB, Eol>>), line),
        MatchGroup(Marks, PhraseNarrow, FALSE,
            Cat(<<Star(Ws), Bracket, Lit("]"), Eol>>), line))

\* "Pattern 7": re.findall(r'([a-zA-Z][a-zA-Z\-]+)\s*\[[^\]]+\]', line)[0],
\* the group of the leftmost match, or None when findall returns []
MultiWordAt(line, st) ==
    GroupSpan(Cat(<<>>), Cat(<<Cls(AsciiLetter), Plus(Cls(AsciiLetter \cup {"-"}))>>), FALSE,
              Cat(<<Star(Ws), Bracket>>), line, st)

MultiWordFrom(line, starts) ==
    IF starts = {} THEN None ELSE GroupText(line, MultiWordAt(line, SetMin(starts)))

MultiWordFirst(line) == MultiWordFrom(line, {st \in 0..Len(line) : MultiWordAt(line, st) # <<>>})

\* [a-zA-Z<umlauts>][a-zA-Z<umlauts>\-\/\s]+
InlineGermanText ==
    Cat(<<Cls(AsciiLetter \cup german_indicators),
          Plus(Cls(AsciiLetter \cup german_indicators \cup {"-", "/"} \cup Whitespace))>>)

\* "Pattern 3": headword, annotation and translation on one line:
\* <<group(1), group(2)>> or None
TwoGroups(s, g1, g2) ==
    IF g1 = <<>> THEN None ELSE <<Slice(s, g1[1], g1[2]), Slice(s, g2[1], g2[2])>>

InlineMatch(line) ==
    TwoGroups(line,
        GroupSpan(Marks, PhraseNarrow, FALSE,
            Cat(<<Star(Ws), Bracket, Plus(Ws), InlineGermanText, Eol>>), line, 0),
        GroupSpan(Cat(<<Marks, PhraseNarrow, Star(Ws), Bracket, Plus(Ws)>>),
            InlineGermanText, FALSE, Eol, line, 0))

\* "Pattern 4": knife [naif], knives (pl)
PluralMatch(line) ==
    MatchGroup(Marks, PhraseNarrow, FALSE,
        Cat(<<Star(Ws), Bracket, Lit(","), Star(Ws), Plus(Cls(WordChar)), Star(Ws), Lit("(pl)"), Eol>>), line)

\* re.match(r'^\[[^\]]*\]', t) or re.match(r'^\[\S+\].*\]$', t)
IsPronLine(t) ==
    \/ ReMatch(Cat(<<Bol, Lit("["), Star(NotCls({"]"})), Lit("]")>>), t)
    \/ ReMatch(Cat(<<Bol, Lit("["), Plus(NotCls(Whitespace)), Lit("]"), Star(AnyChar), Lit("]"), Eol>>), t)

\* re.match(r'^[\*"\d\s\']*[a-zA-Z][a-zA-Z\s\'\-]+\s*\[', t)
StartsVocabEntry(t) == ReMatch(Cat(<<Bol, MarksQuote, PhraseNarrow, Star(Ws), Lit("[")>>), t)

RECURSIVE FindPron(_, _, _)
\* The loop of lines 379-391 from index k: pron_line_idx, or -1 for None
FindPron(ls, k, stop) ==
    IF k >= stop THEN -1
    ELSE LET next_line == Line(ls, k)
         IN  IF IsPronLine(next_line) THEN k
             ELSE IF should_skip_line(next_line) \/ next_line = "" THEN FindPron(ls, k + 1, stop)
             ELSE IF StartsVocabEntry(next_line) THEN -1
             ELSE FindPron(ls, k + 1, stop)

Min2(a, b) == IF a < b THEN a ELSE b

incomplete_endings == {"nicht", "und", "oder", "bei", "von", "das", "der", "die"}

\* cleaned.split()[-1].lower().rstrip(')') if cleaned.split() else ''
last_word(toks) == IF toks # <<>> THEN rstripSet(lower(toks[Len(toks)]), {")"}) ELSE ""

looks_incomplete(cleaned) ==
    last_word(split(cleaned)) \in incomplete_endings /\ ~ endswith(cleaned, ")")

\* next_line.rstrip(';').strip()
Cleaned(t) == strip(rstripSet(t, {";"}))

\* if german_parts and german_parts[-1].endswith('-'): join, else: append
AddPart(parts, cleaned) ==
    IF parts # <<>> /\ endswith(parts[Len(parts)], "-")
    THEN [parts EXCEPT ![Len(parts)] = Slice(@, 0, Len(@) - 1) \o cleaned]
    ELSE Append(parts, cleaned)

\* One iteration of a translation-collecting loop on a line that did not
\* stop it (lines 432-470 and 562-607): the new parts and whether it breaks
Continue(parts) == [parts |-> parts, brk |-> FALSE]

\* A German line that never ends the collection
CollectGermanGoesOn(cleaned, parts) ==
    IF cleaned # "" /\ Len(cleaned) > 1
    THEN [parts |-> AddPart(parts, cleaned), brk |-> FALSE]
    ELSE [parts |-> parts, brk |-> FALSE]

\* lines 445-457 and 577-593: a German line
CollectGerman(cleaned, parts) ==
    IF cleaned # "" /\ Len(cleaned) > 1
    THEN [parts |-> AddPart(parts, cleaned),
          brk |-> ~ endswith(cleaned, "-") /\ ~ looks_incomplete(cleaned)]
    ELSE Continue(parts)

\* lines 459-470 and 595-607: a continuation line
CollectContinuation(cleaned, parts, added) ==
    IF cleaned # "" /\ Len(cleaned) > 1
    THEN [parts |-> added,
          brk |-> endswith(cleaned, ")") \/ (Len(added) >= 2 /\ ~ endswith(cleaned, "-"))]
    ELSE Continue(parts)

CollectLine(t, parts) ==
    IF t = "" \/ should_skip_line(t) \/ is_english_sentence(t) THEN Continue(parts)
    ELSE IF is_likely_german(t) THEN CollectGerman(Cleaned(t), parts)
    ELSE IF is_continuation(t) THEN CollectContinuation(Cleaned(t), parts, AddPart(parts, Cleaned(t)))
    ELSE Continue(parts)

\* re.match(r'^[\*"\d\s]*[a-zA-Z][a-zA-Z\s\'\-\(\)\.\/\+\,\?!]+?\s*\[[^\]]+\]', t)
SplitStopEntry(t) == ReMatch(Cat(<<Bol, Marks, PhraseWide, Star(Ws), Bracket>>), t)
\* re.match(r'^\[[^\]]+\]$', t)
SplitStopPron(t) == ReMatch(Cat(<<Bol, Bracket, Eol>>), t)
\* re.match(r'^[\*"\d\s]*[a-zA-Z][a-zA-Z\s\'\-\(\)\.\/\+\,\?!]+?\s*\[[^\]]+\]$', t)
FallbackStopEntry(t) == ReMatch(Cat(<<Bol, Marks, PhraseWide, Star(Ws), Bracket, Eol>>), t)

RECURSIVE SplitBetween(_, _, _, _)
\* lines 408-417: the lines between the headword and its annotation
SplitBetween(ls, k, pron_line_idx, parts) ==
    IF k >= pron_line_idx THEN parts
    ELSE LET between_line == Line(ls, k)
             cleaned == Cleaned(between_line)
         IN  IF between_line = "" \/ should_skip_line(between_line) \/ is_english_sentence(between_line)
             THEN SplitBetween(ls, k + 1, pron_line_idx, parts)
             ELSE IF is_likely_german(between_line) /\ cleaned # "" /\ Len(cleaned) > 1
             THEN SplitBetween(ls, k + 1, pron_line_idx, Append(parts, cleaned))
             ELSE SplitBetween(ls, k + 1, pron_line_idx, parts)

RECURSIVE SplitAfter(_, _, _, _)
RECURSIVE SplitAfterNext(_, _, _, _)
\* lines 423-470: the lines after the annotation
SplitAfter(ls, j, max_lines, parts) ==
    IF j >= max_lines THEN parts
    ELSE IF SplitStopEntry(Line(ls, j)) \/ SplitStopPron(Line(ls, j)) THEN parts
    ELSE SplitAfterNext(ls, j, max_lines, CollectLine(Line(ls, j), parts))

\* break, or j += 1
SplitAfterNext(ls, j, max_lines, r) ==
    IF r.brk THEN r.parts ELSE SplitAfter(ls, j + 1, max_lines, r.parts)

RECURSIVE FallbackCollect(_, _, _, _)
RECURSIVE FallbackCollectNext(_, _, _, _)
\* lines 555-607
FallbackCollect(ls, j, max_lines, parts) ==
    IF j >= max_lines THEN parts
    ELSE IF FallbackStopEntry(Line(ls, j)) THEN parts
    ELSE FallbackCollectNext(ls, j, max_lines, CollectLine(Line(ls, j), parts))

\* break, or j += 1
FallbackCollectNext(ls, j, max_lines, r) ==
    IF r.brk THEN r.parts ELSE FallbackCollect(ls, j + 1, max_lines, r.parts)

RECURSIVE ReflexiveCollect(_, _, _, _)
\* lines 493-504
ReflexiveCollect(ls, j, stop, parts) ==
    IF j >= stop THEN parts
    ELSE LET next_line == Line(ls, j)
             cleaned == Cleaned(next_line)
         IN  IF next_line = "" \/ should_skip_line(next_line)
             THEN ReflexiveCollect(ls, j + 1, stop, parts)
             ELSE IF (is_likely_german(next_line) \/ is_continuation(next_line))
                     /\ cleaned # "" /\ Len(cleaned) > 1
             THEN IF ~ endswith(cleaned, "-") THEN Append(parts, cleaned)
                  ELSE ReflexiveCollect(ls, j + 1, stop, Append(parts, cleaned))
             ELSE ReflexiveCollect(ls, j + 1, stop, parts)

RECURSIVE SubSemicolons(_)
\* re.sub(r';\s*;', ';', s)
\* ;\s*;
DoubleSemicolon == Cat(<<Lit(";"), Star(Ws), Lit(";")>>)

RECURSIVE SubSemicolonsFrom(_, _)
\* the leftmost match starts at the least of `starts`
SubSemicolonsFrom(s, starts) ==
    IF starts = {} THEN s
    ELSE Slice(s, 0, SetMin(starts)) \o ";"
         \o SubSemicolons(Slice(s, SetMax(Ends(DoubleSemicolon, s, {SetMin(starts)})), Len(s)))

SubSemicolons(s) == SubSemicolonsFrom(s, {k \in 0..Len(s) : Ends(DoubleSemicolon, s, {k}) # {}})

RECURSIVE SubWhitespace(_)
\* re.sub(r'\s+', ' ', s)
RECURSIVE SubWhitespaceFrom(_, _)
SubWhitespaceFrom(s, starts) ==
    IF starts = {} THEN s
    ELSE Slice(s, 0, SetMin(starts)) \o " "
         \o SubWhitespace(Slice(s, SetMax(Ends(Plus(Ws), s, {SetMin(starts)})), Len(s)))

SubWhitespace(s) == SubWhitespaceFrom(s, {k \in 0..(Len(s) - 1) : CharAt(s, k) \in Whitespace})

\* lines 473-476 and 611-614
JoinGerman(parts) == stripSet(SubWhitespace(SubSemicolons(join("; ", parts))), {";", " "})

\* lines 472-479 and 610-617: the entries to append
EmitEntry(english_word, parts, german) ==
    IF parts # <<>> /\ english_word # "" /\ german # "" /\ Len(german) > 1
    THEN << <<english_word, german>> >>
    ELSE <<>>

EmitJoined(english_word, parts) == EmitEntry(english_word, parts, JoinGerman(parts))

-----------------------------------------------------------------------------
(* parse_english_vocabulary: one iteration of the outer loop (lines        *)
(* 307-622) with the cursor at idx.  The result holds the new cursor, the    *)
(* entries appended (none or one) and the branch that ended the iteration. *)

StepResult(new_i, add, pattern) == [i |-> new_i, add |-> add, pattern |-> pattern]

\* group(1).strip().lstrip('*"0123456789 ')
HeadwordOf(group1) == lstripSet(strip(group1), CharsOf("*\"0123456789 "))

\* re.match(r'^[\*"\d\s\']*([a-zA-Z][a-zA-Z\s\'\-\(\)\.\/\+\,\?!]+?)(?:\s*\((?:AE|BE|no pl|pl)\))?$', line)
WordMatch(line) ==
    MatchGroup(MarksQuote, PhraseWide, TRUE,
        Cat(<<Opt(Cat(<<Star(Ws), Lit("("), Alt(<<Lit("AE"), Lit("BE"), Lit("no pl"), Lit("pl")>>), Lit(")")>>)), Eol>>),
        line)

\* lines 398-402: the headword of the split pattern, with its marker
WithMarker(base, markers) ==
    IF markers = {} THEN base ELSE base \o " (" \o (CHOOSE m \in markers : TRUE) \o ")"

SplitHeadword(line, word_match) ==
    WithMarker(lstripSet(strip(word_match[1]), CharsOf("*\"'0123456789 ")),
               {m \in {"AE", "BE", "no pl"} : ReSearch(Cat(<<Lit("("), Lit(m), Lit(")"), Eol>>), line)})

\* re.match(r'^(to \w+ (oneself|yourself|himself|herself|themselves|ourselves))$', line, re.IGNORECASE)
ReflexiveMatch(line) ==
    ReMatch(Cat(<<Bol, ILit("to "), Plus(Cls(WordChar)), ILit(" "),
                  Alt(<<ILit("oneself"), ILit("yourself"), ILit("himself"),
                        ILit("herself"), ILit("themselves"), ILit("ourselves")>>), Eol>>), line)

\* re.match(r'^[\*"\d\s\']*([a-zA-Z][a-zA-Z\-]+)$', line)
SimpleWordMatch(line) ==
    MatchGroup(MarksQuote, Cat(<<Cls(AsciiLetter), Plus(Cls(AsciiLetter \cup {"-"}))>>), FALSE, Eol, line)

\* lines 522-526
has_nearby_pron(ls, idx) ==
    \E k \in (idx + 1)..(Min2(idx + 5, Len(ls)) - 1) : startswith(Line(ls, k), "[")

\* lines 532-538
is_german_like(next_line) ==
    /\ \/ \E c \in german_indicators : contains(next_line, c)
       \/ /\ next_line # "" /\ islower(CharAt(next_line, 0))
          /\ (contains(next_line, ";") \/ contains(next_line, "/"))
          /\ Len(next_line) < 30
    /\ Len(next_line) < 40
    /\ Len(next_line) > 2
    /\ ~ is_english_sentence(next_line)
    /\ ~ should_skip_line(next_line)

\* lines 543-620: the fallback for a headword with its annotation
StepFallback(ls, idx, english_word) ==
    IF Len(english_word) < 2
    THEN StepResult(idx + 1, <<>>, "short")
    ELSE StepResult(idx + 1,
             EmitJoined(english_word, FallbackCollect(ls, idx + 1, Min2(idx + 10, Len(ls)), <<>>)),
             "fallback")

\* lines 516-541: a bare word followed by its translation
StepBare(ls, idx, match, simple) ==
    IF /\ match = None /\ simple # None
       /\ Len(strip(simple[1])) >= 4 /\ Len(strip(simple[1])) < 25
       /\ ~ has_nearby_pron(ls, idx) /\ idx + 1 < Len(ls)
       /\ is_german_like(Line(ls, idx + 1))
    THEN StepResult(idx + 1, << <<strip(simple[1]), Line(ls, idx + 1)>> >>, "bare")
    ELSE IF match # None THEN StepFallback(ls, idx, HeadwordOf(match[1]))
    ELSE StepResult(idx + 1, <<>>, "none")

\* lines 486-510: a reflexive verb
StepReflexive(ls, idx, line, match, reflexive_parts) ==
    IF match = None /\ ReflexiveMatch(line) /\ reflexive_parts # <<>>
    THEN StepResult(idx + 1,
             << <<strip(line), stripSet(SubWhitespace(join("; ", reflexive_parts)), {";", " "})>> >>,
             "reflexive")
    ELSE StepBare(ls, idx, match, SimpleWordMatch(line))

\* lines 484-622, entered when no earlier pattern ended the iteration;
\* match is the match object of lines 328-371
StepTail(ls, idx, line, match) ==
    StepReflexive(ls, idx, line, match, ReflexiveCollect(ls, idx + 1, Min2(idx + 5, Len(ls)), <<>>))

\* The headword alone on its line, with one more line looked at after the
\* annotation
StepSplitAtWide(ls, idx, line, match, pron_line_idx, word_match, english_word) ==
    IF /\ pron_line_idx # -1
       /\ word_match # None
       /\ Len(english_word) >= 2 /\ Len(english_word) < 45
    THEN StepResult(idx + 2,
             EmitJoined(english_word,
                 SplitAfter(ls, pron_line_idx + 1, Min2(pron_line_idx + 13, Len(ls)),
                     SplitBetween(ls, idx + 1, pron_line_idx, <<>>))),
             "split")
    ELSE StepTail(ls, idx, line, match)

\* lines 393-482: the headword alone on its line
StepSplitAt(ls, idx, line, match, pron_line_idx, word_match, english_word) ==
    IF /\ pron_line_idx # -1
       /\ word_match # None
       /\ Len(english_word) >= 2 /\ Len(english_word) < 45
    THEN StepResult(idx + 2,
             EmitJoined(english_word,
                 SplitAfter(ls, pron_line_idx + 1, Min2(pron_line_idx + 12, Len(ls)),
                     SplitBetween(ls, idx + 1, pron_line_idx, <<>>))),
             "split")
    ELSE StepTail(ls, idx, line, match)

StepSplitWord(ls, idx, line, match, pron_line_idx, word_match) ==
    StepSplitAt(ls, idx, line, match, pron_line_idx, word_match, SplitHeadword(line, word_match))

\* lines 373-482, entered when neither the multi-headword nor the inline
\* pattern ended the iteration
StepSplit(ls, idx, line, match) ==
    StepSplitWord(ls, idx, line, match,
        IF match = None /\ idx + 1 < Len(ls) THEN FindPron(ls, idx + 1, Min2(idx + 4, Len(ls))) ELSE -1,
        WordMatch(line))

\* lines 356-371: the inline pattern, then the plural pattern
StepInline(ls, idx, line, match1, inline) ==
    IF /\ inline # None
       /\ HeadwordOf(inline[1]) # "" /\ strip(inline[2]) # ""
       /\ Len(HeadwordOf(inline[1])) >= 2
    THEN StepResult(idx + 1, << <<HeadwordOf(inline[1]), strip(inline[2])>> >>, "inline")
    ELSE StepSplit(ls, idx, line, IF match1 = None THEN PluralMatch(line) ELSE match1)

\* lines 340-352: several headwords on one line
StepMulti(ls, idx, line, match1, multi) ==
    IF /\ multi # None /\ Len(strip(multi[1])) >= 3 /\ idx + 1 < Len(ls)
       /\ is_likely_german(Line(ls, idx + 1)) /\ ~ should_skip_line(Line(ls, idx + 1))
    THEN StepResult(idx + 1, << <<strip(multi[1]), Line(ls, idx + 1)>> >>, "multi")
    ELSE StepInline(ls, idx, line, match1, IF match1 = None THEN InlineMatch(line) ELSE None)

\* The multi-headword pattern tried before the result of lines 328-334 is
\* looked at
StepMatchMultiFirst(ls, idx, line, match1) ==
    StepMulti(ls, idx, line, match1, MultiWordFirst(line))

\* lines 328-338
StepMatch(ls, idx, line, match1) ==
    StepMulti(ls, idx, line, match1, IF match1 = None THEN MultiWordFirst(line) ELSE None)

english_step(ls, idx) ==
    IF Line(ls, idx) = "" THEN StepResult(idx + 1, <<>>, "empty")
    ELSE IF IsSectionHeader(Line(ls, idx)) THEN StepResult(idx + 1, <<>>, "header")
    ELSE StepMatch(ls, idx, Line(ls, idx), SameLineMatch(Line(ls, idx)))

RECURSIVE english_loop(_, _, _)
RECURSIVE english_advance(_, _, _)
\* the while loop of lines 306-622
english_loop(ls, idx, vocab) ==
    IF idx >= Len(ls) THEN vocab ELSE english_advance(ls, vocab, english_step(ls, idx))

english_advance(ls, vocab, r) == english_loop(ls, r.i, vocab \o r.add)

-----------------------------------------------------------------------------
(* parse_english_vocabulary: the filter and the deduplication.             *)

german_words == {"sein", "haben", "nicht", "und", "oder", "mit", "sich"}

\* German only when every word of the text is a German function word
looks_like_german_solely(text) ==
    \/ \E c \in german_indicators : contains(text, c)
    \/ /\ split(lower(text)) # <<>>
       /\ \A w \in Range(split(lower(text))) : w \in german_words

\* lines 625-633
looks_like_german(text) ==
    \/ \E c \in german_indicators : contains(text, c)
    \/ \E w \in german_words : w \in Range(split(lower(text)))

\* an empty allow-list
loanwords_none == {}

german_compounds == {"familie", "schule", "haus", "zeit", "wort", "tag", "buch"}

loanwords ==
    { "digital", "cover", "image", "college", "trainer", "content", "communication",
      "blond", "argument", "international", "normal", "social", "personal", "original",
      "formal", "central", "natural", "total", "final", "global", "local", "legal",
      "vital", "mental", "dental", "fatal", "brutal", "neutral", "tribal" }

\* \b(Nobody|Jack|I|We|They|He|She)\s+(was|were|am|is|are)\b
SentenceClause ==
    Cat(<<WordBoundary,
          Alt(<<Lit("Nobody"), Lit("Jack"), Lit("I"), Lit("We"), Lit("They"), Lit("He"), Lit("She")>>),
          Plus(Ws),
          Alt(<<Lit("was"), Lit("were"), Lit("am"), Lit("is"), Lit("are")>>),
          WordBoundary>>)

\* [A-Z][a-z]+\s+[a-z]+\s+[a-z]+\.?$
SentenceTail ==
    Cat(<<Cls(AsciiUpper), Plus(Cls(AsciiLower)), Plus(Ws), Plus(Cls(AsciiLower)),
          Plus(Ws), Plus(Cls(AsciiLower)), Opt(Lit(".")), Eol>>)

is_bad_entry(eng, ger) ==
    \/ looks_like_german(eng)
    \/ /\ Len(eng) > 8 /\ isupper(CharAt(eng, 0)) /\ isalpha(eng) /\ ~ contains(eng, " ")
       /\ \E p \in german_compounds : contains(lower(eng), p)
    \/ strip(lower(eng)) = strip(lower(ger)) /\ lower(eng) \notin loanwords
    \/ isupper(CharAt(eng, 0)) /\ contains(eng, ".") /\ Len(eng) > 30
    \/ ReSearch(SentenceClause, ger)
    \/ startswith(ger, "to ") /\ contains(ger, " - ") /\ count(ger, "-") = 1
    \/ ReSearch(SentenceTail, ger) /\ Len(ger) > 30
    \/ lower(eng) = "so" /\ contains(ger, "gew枚hnt")
    \/ contains(eng, "/") /\ (contains(lower(ger), "books") \/ contains(lower(ger), "comics"))

\* vocabulary = [(e, g) for e, g in vocabulary if not is_bad_entry(e, g)]
FilterBad(vocab) == SelectSeq(vocab, LAMBDA e : ~ is_bad_entry(e[1], e[2]))

\* the key without lower()
DedupKeyCaseSensitive(entry) == strip(entry[1])

\* eng.lower().strip()
DedupKey(entry) == strip(lower(entry[1]))

RECURSIVE Deduplicate(_, _, _)
\* lines 677-683, from index k with the set seen
Deduplicate(vocab, k, seen) ==
    IF k > Len(vocab) THEN <<>>
    ELSE IF DedupKey(vocab[k]) \notin seen
    THEN <<vocab[k]>> \o Deduplicate(vocab, k + 1, seen \cup {DedupKey(vocab[k])})
    ELSE Deduplicate(vocab, k + 1, seen)

parse_english_vocabulary(ls) == Deduplicate(FilterBad(english_loop(ls, 0, <<>>)), 1, {})

-----------------------------------------------------------------------------
(* parse_vocabulary_lines: the French/German branch (lines 699-831).  The  *)
(* accented letters of its character classes are spelt as the source file  *)
(* spells them; the members a TLA+ string can hold are kept.               *)

\* the letters of the character classes of lines 729-817
FrenchLetter == AsciiLetter \cup CharsOf("芒盲毛没莽忙")
\* any(c in next_line for c in '...') of lines 751-822
german_chars == CharsOf("盲枚")
\* the accented letters of line 752
french_accents == CharsOf("芒毛没莽忙")

french_skip_patterns ==
    << Cat(<<Bol, Plus(Cls(Digit)), Eol>>),
       Cat(<<Bol, ILit("cent-")>>),
       Cat(<<Bol, ILit("Vocabulaire"), Eol>>),
       Cat(<<Bol, ILit("AUF EINEN BLICK")>>),
       Cat(<<Bol, ILit("MON DICO PERSONNEL")>>),
       Cat(<<Bol, ILit("TIPP"), Eol>>),
       Cat(<<Bol, ILit("TU TE RAPPELLES?"), Eol>>),
       Cat(<<Bol, ILit("Atelier")>>),
       Cat(<<Bol, ILit("DE"), Eol>>),
       Cat(<<Bol, ILit("A "), Plus(Cls(Digit)), Eol>>),
       Cat(<<Bol, ILit("englisch:")>>),
       Cat(<<Bol, ILit("->")>>),
       Cat(<<Bol, ILit("Lerne ")>>),
       Cat(<<Bol, ILit("kannst du")>>),
       Cat(<<Bol, ILit("der rechten ")>>),
       Cat(<<Bol, ILit("Westen Frankreichs")>>) >>

\* s.startswith(tuple) and any(s.startswith(x) for x in list)
startswith_any(s, prefixes) == \E x \in prefixes : startswith(s, x)

has_german_char(s) == \E c \in german_chars : contains(s, c)

\* line 729: group(1) of the headword followed by its pronunciation
PronMatch(line) ==
    MatchGroup(Star(Cls({"*"} \cup Digit \cup Whitespace)),
        Cat(<<Cls(FrenchLetter), Plus(Cls(FrenchLetter \cup Whitespace \cup CharsOf("'-()./+,")))>>), TRUE,
        Cat(<<Star(Ws), Bracket, Eol>>), line)

french_example_starters ==
    {"Il ", "Elle ", "Je ", "Tu ", "On ", "Nous ", "Vous ", "Les ", "Le ", "La ", "C'", "Pour "}

\* lines 750-752
is_german_translation(next_line) ==
    \/ startswith_any(next_line, {"der ", "die ", "das ", "ein ", "eine ", "etw.", "jdn.", "jdm.", "sich "})
    \/ has_german_char(next_line)
    \/ /\ isupper(CharAt(next_line, 0))
       /\ Len(next_line) < 80
       /\ ~ \E c \in french_accents : contains(next_line, c)

\* lines 753-755
EmitTranslation(foreign_word, translation) ==
    IF foreign_word # "" /\ translation # "" /\ Len(translation) > 1
    THEN << <<foreign_word, translation>> >>
    ELSE <<>>

RECURSIVE FindTranslation(_, _, _, _)
\* lines 735-756: the entries appended by the loop over the next lines
FindTranslation(ls, j, stop, foreign_word) ==
    IF j >= stop THEN <<>>
    ELSE IF Line(ls, j) = "" THEN FindTranslation(ls, j + 1, stop, foreign_word)
    ELSE IF startswith_any(Line(ls, j), {"Fr.", "Lat.", "!", "->", "芦>"})
    THEN FindTranslation(ls, j + 1, stop, foreign_word)
    ELSE IF startswith_any(Line(ls, j), french_example_starters)
    THEN FindTranslation(ls, j + 1, stop, foreign_word)
    ELSE IF contains(Line(ls, j), "[") THEN <<>>
    ELSE IF is_german_translation(Line(ls, j))
    THEN EmitTranslation(foreign_word, Cleaned(Line(ls, j)))
    ELSE FindTranslation(ls, j + 1, stop, foreign_word)

\* [letters'\-\s]+
FrenchWords == Plus(Cls(FrenchLetter \cup {"'", "-"} \cup Whitespace))
\* [letters'\-]+
FrenchWord == Plus(Cls(FrenchLetter \cup {"'", "-"}))

\* line 762, under re.IGNORECASE
ArticleMatch(line) ==
    ReMatch(Cat(<<Bol,
                  Alt(<<ILit("un"), ILit("une"), ILit("le"), ILit("la"), ILit("les"),
                        ILit("l'"), ILit("des"), ILit("au"), ILit("aux"), ILit("du")>>),
                  Plus(Ws), FrenchWords, Eol>>), line)

\* line 778
VerbMatch(line) == ReMatch(Cat(<<Bol, FrenchWords, Alt(<<Lit("qc"), Lit("qn")>>), Eol>>), line)

\* line 791, under re.IGNORECASE
PhraseMatch(line) ==
    ReMatch(Cat(<<Bol,
                  Alt(<<ILit("pendant"), ILit("avoir"), ILit("il n'y a"), ILit("ne pas"),
                        ILit("se"), ILit("faire")>>),
                  Plus(Ws), FrenchWords, Eol>>), line)

\* line 804
SingleWordMatch(line) == ReMatch(Cat(<<Bol, FrenchWord, Eol>>), line)

\* line 805
is_infinitive(line) ==
    \/ ReMatch(Cat(<<Star(AnyChar), Alt(<<Lit("er"), Lit("ir"), Lit("re"), Lit("oir")>>), Eol>>), lower(line))
    \/ lower(line) \in {"hier", "souvent"}

\* line 817
AdjectiveMatch(line) == ReMatch(Cat(<<Bol, FrenchWord, Lit("/"), FrenchWord, Eol>>), line)

\* lines 768-769
accepts_article(next_line) ==
    startswith_any(next_line, {"ein", "eine", "der", "die", "das", "am "}) \/ has_german_char(next_line)
\* line 783
accepts_verb(next_line) ==
    startswith_any(next_line, {"etw.", "jdn.", "jdm."}) \/ has_german_char(next_line)
\* line 796
accepts_phrase(next_line) ==
    \/ has_german_char(next_line)
    \/ startswith_any(next_line, {"w盲hrend", "Lust", "schlecht", "etw.", "jdn.", "jdm."})
\* lines 808-809
accepts_infinitive(next_line) ==
    has_german_char(next_line) \/ \E x \in {"en", "ung", "heit", "keit"} : endswith(next_line, x)
\* line 822
accepts_adjective(next_line) ==
    has_german_char(next_line) \/ ReMatch(Cat(<<Bol, Plus(Cls(AsciiLower)), Eol>>), next_line)

\* if i + 1 < len(lines) and the next line is accepted: append, i += 2;
\* otherwise i += 1
\* The pair taken and the cursor moved past the line after it as well
PairWithNextSkips(ls, idx, french, accepted, pattern) ==
    IF idx + 1 < Len(ls) /\ accepted
    THEN [i |-> idx + 3, add |-> << <<french, Line(ls, idx + 1)>> >>, pattern |-> pattern]
    ELSE [i |-> idx + 1, add |-> <<>>, pattern |-> "unpaired"]

PairWithNext(ls, idx, french, accepted, pattern) ==
    IF idx + 1 < Len(ls) /\ accepted
    THEN StepResult(idx + 2, << <<french, Line(ls, idx + 1)>> >>, pattern)
    ELSE StepResult(idx + 1, <<>>, "unpaired")

\* lines 728-829, the patterns tried in turn; match is the match object of
\* line 729
FrenchPatterns(ls, idx, line, match, source_language) ==
    IF match # None
    THEN StepResult(idx + 1,
             FindTranslation(ls, idx + 1, Min2(idx + 4, Len(ls)),
                 lstripSet(strip(match[1]), CharsOf("*0123456789 "))),
             "pronunciation")
    ELSE IF ArticleMatch(line) /\ source_language = "french"
    THEN PairWithNext(ls, idx, strip(line), accepts_article(Line(ls, idx + 1)), "article")
    ELSE IF VerbMatch(line)
    THEN PairWithNext(ls, idx, strip(line), accepts_verb(Line(ls, idx + 1)), "verb")
    ELSE IF PhraseMatch(line)
    THEN PairWithNext(ls, idx, strip(line), accepts_phrase(Line(ls, idx + 1)), "phrase")
    ELSE IF SingleWordMatch(line)
    THEN PairWithNext(ls, idx, line,
             is_infinitive(line) /\ accepts_infinitive(Line(ls, idx + 1)), "infinitive")
    ELSE IF AdjectiveMatch(line)
    THEN PairWithNext(ls, idx, strip(line), accepts_adjective(Line(ls, idx + 1)), "adjective")
    ELSE StepResult(idx + 1, <<>>, "none")

\* one iteration of the while loop of lines 710-829
french_step(ls, idx, source_language) ==
    IF Line(ls, idx) = "" THEN StepResult(idx + 1, <<>>, "empty")
    ELSE IF MatchesAny(french_skip_patterns, Line(ls, idx)) THEN StepResult(idx + 1, <<>>, "header")
    ELSE FrenchPatterns(ls, idx, Line(ls, idx), PronMatch(Line(ls, idx)), source_language)

RECURSIVE french_loop(_, _, _, _)
RECURSIVE french_advance(_, _, _, _)
french_loop(ls, idx, vocab, source_language) ==
    IF idx >= Len(ls) THEN vocab
    ELSE french_advance(ls, vocab, source_language, french_step(ls, idx, source_language))

french_advance(ls, vocab, source_language, r) == french_loop(ls, r.i, vocab \o r.add, source_language)

parse_vocabulary_lines(ls, source_language) ==
    IF source_language = "english" THEN parse_english_vocabulary(ls)
    ELSE french_loop(ls, 0, <<>>, source_language)

-----------------------------------------------------------------------------
(* create_anki_file (lines 834-906) and load_anki_file of                  *)
(* validate_vocabulary.py (lines 157-171).  A file is modelled by its      *)
(* text.                                                                   *)

sentence_starters ==
    { "Ich ", "Wir ", "Du ", "Er ", "Sie ", "Es ", "Da ist", "Auf geht",
      "Hast ", "Wartest ", "Was ", "Wie ", "Wann ", "Wo " }

sentence_indicators ==
    { "haben wir", "gibt kein", "gibt es", "ist dunkel", "man sieht",
      "soir,", "Souvent", "Gestern", "Internet", "schreit", "nicht allein",
      "Vampir", "Das Gitter", "gehen wir", "interessant ist", "Recht hast",
      "gegen moi", "contre moi", "qu'est", "Qu'est" }

\* lines 869-901: the filters applied to French and German decks
is_filtered(front, back) ==
    \/ endswith(back, "-") \/ endswith(back, " eine") \/ endswith(back, " ein") \/ endswith(back, " im")
    \/ contains(back, "(inv.)") \/ contains(back, "invariable") \/ contains(back, "bedeutet")
    \/ startswith_any(front, {"ein ", "eine ", "der ", "die ", "das "})
    \/ Len(back) > 50
    \/ contains(back, "?")
    \/ startswith_any(back, sentence_starters)
    \/ \E ind \in sentence_indicators : contains(lower(back), lower(ind))
    \/ back \in {"ang", "der", "die", "das", "ein", "eine"}

RECURSIVE WriteEntries(_, _, _, _)
RECURSIVE WriteEntry(_, _, _, _, _, _)
\* lines 849-904: the text written for the entries from index k on
WriteEntries(vocab, k, seen, language) ==
    IF k > Len(vocab) THEN ""
    ELSE WriteEntry(vocab, k, seen, language, strip(vocab[k][1]), strip(vocab[k][2]))

WriteEntry(vocab, k, seen, language, front, back) ==
    IF <<lower(front), lower(back)>> \in seen
    THEN WriteEntries(vocab, k + 1, seen, language)
    ELSE IF front = "" \/ back = "" \/ Len(front) < 2 \/ Len(back) < 2
    THEN WriteEntries(vocab, k + 1, seen \cup {<<lower(front), lower(back)>>}, language)
    ELSE IF language # "english" /\ is_filtered(front, back)
    THEN WriteEntries(vocab, k + 1, seen \cup {<<lower(front), lower(back)>>}, language)
    ELSE front \o "\t" \o back \o "\n"
         \o WriteEntries(vocab, k + 1, seen \cup {<<lower(front), lower(back)>>}, language)

\* the text of the file at output_path when the function returns
create_anki_file(vocab, deck_name, notetype, language) ==
    "#separator:Tab\n" \o "#html:false\n" \o "#deck:" \o deck_name \o "\n"
    \o "#notetype:" \o notetype \o "\n" \o WriteEntries(vocab, 1, {}, language)

RECURSIVE UniversalNewlines(_)
RECURSIVE NewlineAt(_, _)
\* open(filepath, "r"): "\r\n" and "\r" are read as "\n"
UniversalNewlines(s) == NewlineAt(s, {k \in 1..Len(s) : SubSeq(s, k, k) = "\r"})

\* the first "\r" of s, with the "\n" that follows it, becomes "\n"
NewlineAt(s, returns) ==
    IF returns = {} THEN s
    ELSE SubSeq(s, 1, SetMin(returns) - 1) \o "\n"
         \o UniversalNewlines(SubSeq(s, IF SubSeq(s, SetMin(returns) + 1, SetMin(returns) + 1) = "\n"
                                        THEN SetMin(returns) + 2 ELSE SetMin(returns) + 1, Len(s)))

RECURSIVE split_on(_, _)
RECURSIVE split_at(_, _, _)
\* s.split(sep) for a single character sep
split_on(s, sep) == split_at(s, sep, {k \in 1..Len(s) : SubSeq(s, k, k) = sep})

split_at(s, sep, seps) ==
    IF seps = {} THEN <<s>>
    ELSE <<SubSeq(s, 1, SetMin(seps) - 1)>> \o split_on(SubSeq(s, SetMin(seps) + 1, Len(s)), sep)

\* line 167-169
LoadParts(parts) == IF Len(parts) >= 2 THEN << <<parts[1], parts[2]>> >> ELSE <<>>

\* lines 162-169: the entries one line of the file adds
LoadLine(line) ==
    IF line = "" \/ startswith(line, "#") THEN <<>> ELSE LoadParts(split_on(line, "\t"))

RECURSIVE LoadLines(_, _)
\* for line in f
LoadLines(file_lines, k) ==
    IF k > Len(file_lines) THEN <<>>
    ELSE LoadLine(strip(file_lines[k])) \o LoadLines(file_lines, k + 1)

load_anki_file(text) == LoadLines(split_on(UniversalNewlines(text), "\n"), 1)

-----------------------------------------------------------------------------
(* main (lines 909-1036): the names of the files and the deck.             *)

UpperChar(c) ==
    IF c \in AsciiLower
    THEN CharAt("ABCDEFGHIJKLMNOPQRSTUVWXYZ", IndexIn(c, "abcdefghijklmnopqrstuvwxyz") - 1)
    ELSE c

\* p.capitalize()
capitalize(p) == IF p = "" THEN "" ELSE UpperChar(Head(p)) \o lower(Tail(p))

\* folder_path.parts for the command line of the module's documentation
folder_parts == <<"input", "english", "unit-1">>

\* lines 963-964
file_suffix == join("_", SubSeq(folder_parts, Len(folder_parts) - 1, Len(folder_parts)))
\* line 965
output_file == "anki_" \o file_suffix \o ".txt"
\* line 966
raw_file == "raw_" \o file_suffix \o ".txt"

\* lines 946-951
deck_name_of(deck) ==
    IF deck # ""
    THEN deck
    ELSE join(" ", [k \in 1..2 |-> capitalize(folder_parts[Len(folder_parts) - 2 + k])])

\* the default of --notetype
default_notetype == "Einfach (beide Richtungen)"

-----------------------------------------------------------------------------
(* Python's float: an IEEE 754 double that is zero or positive and normal, *)
(* the only values validate_vocabulary.py computes with.  A double is the  *)
(* record [m, e] of value m * 2^e, m a natural number of exactly 53 bits   *)
(* (or 0 with e = 0).  A natural number is the sequence of its digits in   *)
(* base 2^14, the least significant first, without leading zeros.          *)

RECURSIVE BTrim(_)
BTrim(x) ==
    IF x = <<>> THEN <<>>
    ELSE IF x[Len(x)] = 0 THEN BTrim(SubSeq(x, 1, Len(x) - 1))
    ELSE x

RECURSIVE BAddCarry(_, _, _)
BAddCarry(x, y, carry) ==
    IF x = <<>> /\ y = <<>> THEN (IF carry = 0 THEN <<>> ELSE <<carry>>)
    ELSE IF x = <<>> THEN BAddCarry(<<0>>, y, carry)
    ELSE IF y = <<>> THEN BAddCarry(x, <<0>>, carry)
    ELSE <<(Head(x) + Head(y) + carry) % 2^14>>
         \o BAddCarry(Tail(x), Tail(y), (Head(x) + Head(y) + carry) \div 2^14)

BAdd(x, y) == BTrim(BAddCarry(x, y, 0))

RECURSIVE BMulSmallCarry(_, _, _)
\* x * k + carry for k < 2^16
BMulSmallCarry(x, k, carry) ==
    IF x = <<>> THEN (IF carry = 0 THEN <<>> ELSE <<carry % 2^14>> \o BMulSmallCarry(<<>>, k, carry \div 2^14))
    ELSE <<(Head(x) * k + carry) % 2^14>> \o BMulSmallCarry(Tail(x), k, (Head(x) * k + carry) \div 2^14)

BMulSmall(x, k) == BTrim(BMulSmallCarry(x, k, 0))

\* x * 2^14
BShiftDigit(x) == IF x = <<>> THEN <<>> ELSE <<0>> \o x

RECURSIVE BMul(_, _)
BMul(x, y) ==
    IF y = <<>> THEN <<>>
    ELSE BAdd(BMulSmall(x, Head(y)), BShiftDigit(BMul(x, Tail(y))))

RECURSIVE BDivFrom(_, _, _, _, _)
\* the digits k..1 of x divided by d < 2^17, with r carried in from above
\* and quot the digits of the quotient found so far: [quot, rem]
BDivFrom(x, d, k, r, quot) ==
    IF k = 0 THEN [quot |-> quot, rem |-> r]
    ELSE BDivFrom(x, d, k - 1, (r * 2^14 + x[k]) % d, <<(r * 2^14 + x[k]) \div d>> \o quot)

BDivSmall(x, d) == BDivFrom(x, d, Len(x), 0, <<>>)

RECURSIVE BitLength(_)
\* n.bit_length()
BitLength(n) == IF n = 0 THEN 0 ELSE 1 + BitLength(n \div 2)

BBitLength(x) == IF x = <<>> THEN 0 ELSE 14 * (Len(x) - 1) + BitLength(x[Len(x)])

\* x << n
BShiftLeft(x, n) ==
    IF x = <<>> THEN <<>> ELSE BMulSmall([k \in 1..(n \div 14) |-> 0] \o x, 2^(n % 14))

\* x >> n, and whether a one was shifted out: [quot, sticky]
BShiftRight(x, n) ==
    [quot |-> BTrim(BDivSmall(SubSeq(x, (n \div 14) + 1, Len(x)), 2^(n % 14)).quot),
     sticky |-> \/ BDivSmall(SubSeq(x, (n \div 14) + 1, Len(x)), 2^(n % 14)).rem # 0
                \/ \E k \in 1..(n \div 14) : k <= Len(x) /\ x[k] # 0]

BIsOdd(x) == x # <<>> /\ x[1] % 2 = 1

\* x >= y
BGreaterEqual(x, y) ==
    \/ Len(x) > Len(y)
    \/ /\ Len(x) = Len(y)
       /\ \A k \in 1..Len(x) : x[k] < y[k] => \E j \in (k + 1)..Len(x) : x[j] > y[j]

FZero == [m |-> <<>>, e |-> 0]

\* m with 53 or 54 bits, brought back to 53
FNormal(m, e) ==
    IF BBitLength(m) = 54 THEN [m |-> BShiftRight(m, 1).quot, e |-> e + 1] ELSE [m |-> m, e |-> e]

\* v holds the 53 bits to keep and the first bit dropped; the tie goes to
\* the even neighbour
FRoundHalfEven(v, sticky, e) ==
    FNormal(IF BIsOdd(v) /\ (sticky \/ BIsOdd(BShiftRight(v, 1).quot))
            THEN BAdd(BShiftRight(v, 1).quot, <<1>>)
            ELSE BShiftRight(v, 1).quot,
            e)

FRoundShifted(s, sticky, e) == FRoundHalfEven(s.quot, s.sticky \/ sticky, e)

\* the double nearest to x * 2^e, sticky telling that the exact value is a
\* little more than x * 2^e
FRound(x, e, sticky) ==
    IF x = <<>> THEN FZero
    ELSE IF BBitLength(x) <= 53
    THEN [m |-> BShiftLeft(x, 53 - BBitLength(x)), e |-> e - (53 - BBitLength(x))]
    ELSE FRoundShifted(BShiftRight(x, BBitLength(x) - 54), sticky, e + BBitLength(x) - 53)

FQuotient(d) == FRound(BTrim(d.quot), -84, d.rem # 0)

\* float(p) / float(q), and the decimal literal p/q, for 0 <= p < 2^14
\* and 0 < q < 2^14
FRatio(p, q) == IF p = 0 THEN FZero ELSE FQuotient(BDivSmall(BShiftLeft(<<p>>, 84), q))

\* a * b
FMul(a, b) == IF a = FZero \/ b = FZero THEN FZero ELSE FRound(BMul(a.m, b.m), a.e + b.e, FALSE)

\* a + b
FAdd(a, b) ==
    IF a = FZero THEN b
    ELSE IF b = FZero THEN a
    ELSE IF a.e <= b.e THEN FRound(BAdd(a.m, BShiftLeft(b.m, b.e - a.e)), a.e, FALSE)
    ELSE FRound(BAdd(BShiftLeft(a.m, a.e - b.e), b.m), b.e, FALSE)

\* a >= b
FGreaterEqual(a, b) ==
    IF b = FZero THEN TRUE
    ELSE IF a = FZero THEN FALSE
    ELSE IF a.e <= b.e THEN BGreaterEqual(a.m, BShiftLeft(b.m, b.e - a.e))
    ELSE BGreaterEqual(BShiftLeft(a.m, a.e - b.e), b.m)

\* s holds the hundredths and the first bit dropped
FRoundCents(s) ==
    IF s.quot = <<>> THEN 0
    ELSE (s.quot[1] \div 2)
         + (IF s.quot[1] % 2 = 1 /\ (s.sticky \/ (s.quot[1] \div 2) % 2 = 1) THEN 1 ELSE 0)

\* round(a * 100) as format(a, '.2f') rounds it, for 2^-40 < a < 2^14
FHundredths(a) ==
    IF a = FZero THEN 0
    ELSE FRoundCents(BShiftRight(BMulSmall(a.m, 100), (0 - a.e) - 1))

\* f"{a:.2f}"
FormatTwoPlaces(a) ==
    ToString(FHundredths(a) \div 100) \o "." \o ToString((FHundredths(a) % 100) \div 10)
        \o ToString(FHundredths(a) % 10)

-----------------------------------------------------------------------------
(* validate_vocabulary.py: the two scores (lines 114-154).                 *)
(* difflib.SequenceMatcher(None, a, b) is modelled for b shorter than 200  *)
(* characters, where it sets no character aside as popular.                *)

RECURSIVE RunLength(_, _, _, _, _, _)
\* the length of the longest common run of a[p:ahi] and b[q:bhi] from
\* their starts
RunLength(a, b, p, q, ahi, bhi) ==
    IF p < ahi /\ q < bhi /\ CharAt(a, p) = CharAt(b, q)
    THEN 1 + RunLength(a, b, p + 1, q + 1, ahi, bhi)
    ELSE 0

\* the starts <<p, q>> of the common runs of length k
RunStarts(a, b, alo, ahi, blo, bhi, k) ==
    {pq \in (alo..(ahi - 1)) \X (blo..(bhi - 1)) : RunLength(a, b, pq[1], pq[2], ahi, bhi) >= k}

\* of the longest runs the one that starts earliest in a and, of those,
\* earliest in b
EarliestRun(starts, k) ==
    [p |-> SetMin({pq[1] : pq \in starts}),
     q |-> SetMin({pq[2] : pq \in {x \in starts : x[1] = SetMin({y[1] : y \in starts})}}),
     k |-> k]

LongestOf(a, b, alo, ahi, blo, bhi, k) == EarliestRun(RunStarts(a, b, alo, ahi, blo, bhi, k), k)

\* SequenceMatcher.find_longest_match(alo, ahi, blo, bhi): [p, q, k]
find_longest_match(a, b, alo, ahi, blo, bhi) ==
    IF alo >= ahi \/ blo >= bhi THEN [p |-> alo, q |-> blo, k |-> 0]
    ELSE IF \A pq \in (alo..(ahi - 1)) \X (blo..(bhi - 1)) : CharAt(a, pq[1]) # CharAt(b, pq[2])
    THEN [p |-> alo, q |-> blo, k |-> 0]
    ELSE LongestOf(a, b, alo, ahi, blo, bhi,
             SetMax({RunLength(a, b, pq[1], pq[2], ahi, bhi) : pq \in (alo..(ahi - 1)) \X (blo..(bhi - 1))}))

RECURSIVE Matches(_, _, _, _, _, _)
RECURSIVE MatchesAround(_, _, _, _, _, _, _)
\* the sum of the sizes of SequenceMatcher.get_matching_blocks() within
\* a[alo:ahi] and b[blo:bhi]
Matches(a, b, alo, ahi, blo, bhi) ==
    MatchesAround(a, b, alo, ahi, blo, bhi, find_longest_match(a, b, alo, ahi, blo, bhi))

MatchesAround(a, b, alo, ahi, blo, bhi, x) ==
    IF x.k = 0 THEN 0
    ELSE x.k
         + (IF alo < x.p /\ blo < x.q THEN Matches(a, b, alo, x.p, blo, x.q) ELSE 0)
         + (IF x.p + x.k < ahi /\ x.q + x.k < bhi THEN Matches(a, b, x.p + x.k, ahi, x.q + x.k, bhi) ELSE 0)

\* SequenceMatcher(None, a, b).ratio(): 2.0 * matches / length, 1.0 for two
\* empty strings
ratio(a, b) ==
    IF Len(a) + Len(b) = 0 THEN FRatio(1, 1)
    ELSE FRatio(2 * Matches(a, b, 0, Len(a), 0, Len(b)), Len(a) + Len(b))

articles == <<"der ", "die ", "das ", "ein ", "eine ", "etw. ", "jdn. ", "jdm. ">>

RECURSIVE StripArticles(_, _)
\* lines 125-129, for one of the two texts, from article k on
StripArticles(t, k) ==
    IF k > Len(articles) THEN t
    ELSE IF startswith(t, articles[k]) THEN StripArticles(SubSeq(t, Len(articles[k]) + 1, Len(t)), k + 1)
    ELSE StripArticles(t, k + 1)

\* the two texts as the SequenceMatcher gets them
Normalized(text) == StripArticles(strip(lower(text)), 1)

similarity_score(text1, text2) ==
    IF text1 = "" \/ text2 = "" THEN FZero
    ELSE ratio(Normalized(text1), Normalized(text2))

stop_words == {"der", "die", "das", "ein", "eine", "und", "oder", "zu", "sich", "etw.", "jdn.", "jdm."}

\* set(text.lower().split()) - stop_words
Words(text) == Range(split(lower(text))) \ stop_words

word_overlap_score(text1, text2) ==
    IF text1 = "" \/ text2 = "" THEN FZero
    ELSE IF Words(text1) = {} \/ Words(text2) = {} THEN FZero
    ELSE FRatio(Cardinality(Words(text1) \cap Words(text2)), Cardinality(Words(text1) \cup Words(text2)))

\* weights that do not add up to one
combined_score_light(seq_similarity, word_sim) ==
    FAdd(FMul(FRatio(6, 10), seq_similarity), FMul(FRatio(3, 10), word_sim))

\* line 229
combined_score(seq_similarity, word_sim) ==
    FAdd(FMul(FRatio(6, 10), seq_similarity), FMul(FRatio(4, 10), word_sim))

-----------------------------------------------------------------------------
(* The inputs of the model.                                                *)

\* The longest line sequence built from LinePool
MaxLines == 3

\* Lines as the OCR step delivers them
LinePool ==
    { "personality [,p3:sn'æloti]",
      "Persönlichkeit",
      "Personality [x]",
      "misunderstood",
      "missverstanden",
      "to push oneself",
      "a; ;" }

RECURSIVE SeqsUpTo(_, _)
\* every sequence over S of length at most n
SeqsUpTo(S, n) ==
    IF n = 0 THEN {<<>>} ELSE SeqsUpTo(S, n - 1) \cup {Append(q, x) : q \in SeqsUpTo(S, n - 1), x \in S}

ScenarioA == <<"personality [,p3:sn'æloti]", "Persönlichkeit">>
ScenarioB == <<"to compromise", "['komprema?z]", "Kompromisse eingehen">>
ScenarioC == <<"misunderstood", "missverstanden">>

\* a reflexive headword whose translation is hyphenated over two lines
HyphenPage == <<"to push oneself", "sich an-", "strengen">>
\* a hyphenated translation between a headword and its annotation
BetweenPage == <<"to cooperate", "Zusammen-", "Arbeit", "[kou'opareit]">>
\* two lower-case translations after an annotation line
ContinuationPage == <<"to compromise", "[komp]", "klein", "winzig">>
\* an annotated headword followed by the annotation of the next entry
AnnotationPage == <<"house [haus]", "[komp]", "Kompromiss">>
\* a translation line followed by an annotation line
SharedPage == <<"house [haus]", "Haus", "[x]", "Heim">>
\* a headword holding one German function word
FunctionWordPage == <<"rock und roll [x]", "Musik">>
\* a hyphenated translation fourteen and fifteen lines below its headword
LongPage ==
    <<"to compromise", "", "", "[komp]", "", "", "", "", "", "", "", "", "", "",
      "Kompromiss-", "bereitschaft">>

\* Longer pages, one per layout the parser distinguishes
Documents ==
    { ScenarioB,
      <<"Vocabulary", "", "Fr. imagination -> to imagine">>,
      <<"active ['aktiv], angry, clear", "aktiv", "indirect [,Indirekt] indirekt">>,
      <<"knife [naif], knives (pl)", "Messer", "a [x]", "123">>,
      <<"  to agree (AE)  ", "smart = clever", "[a'gri:]", "zustimmen; einwilligen">>,
      <<"digital ['did3it]]", "digital", "cover ['kAva]", "Cover", "happy ['hapi]", "happy">>,
      <<"misunderstood", "missverst盲nden", "mit [mit]", "zusammen">>,
      <<"misunderstood", "falsch;\tmissverstanden">>,
      <<"cover ['kAva]", "Zusammen-", "arbeit", "COVER ['kAva]", "etw. tun und", "lassen">>,
      HyphenPage, BetweenPage, ContinuationPage, AnnotationPage, SharedPage,
      FunctionWordPage, LongPage }

Inputs == SeqsUpTo(LinePool, MaxLines) \cup Documents

\* The longest line sequence built from FrenchPool
MaxFrenchLines == 2

FrenchPool ==
    { "porter qc", "etw. tragen", "etw. anhaben", "le pantalon [pata'lo]", "die Hose", "regarder" }

\* Pages of a French or German book
FrenchDocuments ==
    { <<"porter qc", "etw. tragen", "porter qc", "etw. anhaben">>,
      <<"Vocabulaire", "un sweat-shirt", "ein Sweatshirt", "12">>,
      <<"petit/petite", "klein", "regarder", "ansehen">>,
      <<"avoir envie", "Lust haben auf etw.?", "se promener", "spazieren gehen">>,
      <<"*2 le chat [Sa]", "Fr. chat", "Il dort.", "die Katze;", "Le Chat [Sa]", "Der Kater">>,
      <<"le mot [mo]", "  das Wort  ", "le mot [mo]", "das Wort">> }

DeckTexts == SeqsUpTo(FrenchPool, MaxFrenchLines) \cup FrenchDocuments \cup Documents

\* What the OCR step returns for the images of the input folder
MainTexts ==
    { ScenarioA,
      <<"Vocabulary", "12">>,
      <<"porter qc", "etw. tragen", "porter qc", "etw. anhaben">>,
      <<"cover ['kAva]", "Zusammen-", "arbeit", "COVER ['kAva]", "etw. tun und", "lassen">> }

Languages == {"german", "french", "english"}

RegularFile(text) == [kind |-> "file", text |-> text]
Directory == [kind |-> "dir", text |-> ""]

\* What the output folder may hold before the run
OldEntries ==
    [n \in {output_file, raw_file, "notes.txt", "media"} |->
        CASE n = output_file -> RegularFile("#separator:Tab\nvalidated\tbest盲tigt\n")
          [] n = raw_file -> RegularFile("corrected by hand")
          [] n = "notes.txt" -> RegularFile("notes")
          [] n = "media" -> Directory]

OldFolders == {[n \in S |-> OldEntries[n]] : S \in SUBSET DOMAIN OldEntries}

EmptyFolder == [n \in {} |-> Directory]

\* the command line of a run that only parses and writes
PlainArgs(language) == [force |-> FALSE, reset |-> FALSE, raw |-> FALSE, language |-> language, deck |-> ""]

TypeOK ==
    /\ lines \in Inputs \cup DeckTexts \cup MainTexts \cup {<<>>}
    /\ i \in 0..(Len(lines) + 1)
    /\ pc \in {"scan", "dedup", "done", "start", "reset", "check", "client", "extract",
               "raw", "parse", "create", "exit", "loaded"}
    /\ run \in {1, 2}
    /\ args.language \in Languages
    /\ DOMAIN folder \subseteq DOMAIN OldEntries
    /\ exit_status \in {-1, 0, 1}

-----------------------------------------------------------------------------
(* parse_english_vocabulary as a state machine: the outer loop advances    *)
(* one iteration per step; the filter and the deduplication follow.        *)

\* validate_vocabulary has not been called
NoValidation ==
    /\ results = [valid |-> <<>>, suspicious |-> <<>>, errors |-> <<>>]
    /\ timeline = <<>>
    /\ raw_text = ""

\* extract_all_images has not been called
NoExtraction ==
    /\ listing = {}
    /\ images = <<>>
    /\ ocr_log = <<>>

\* no call of import_anki_file is in progress
NoImport ==
    /\ source_name = ""
    /\ imported = 0
    /\ skipped = 0

\* the database is empty and untouched
\* no interactive session and no correction yet
NoSession ==
    /\ corrections = <<>>
    /\ queue = <<>>
    /\ uncommitted = <<>>
    /\ session_log = <<>>
    /\ now = 0

NoDatabase ==
    /\ vocabulary_table = <<>>
    /\ imports = <<>>
    /\ NoImport
    /\ NoSession

\* main has not started
NoRun ==
    /\ folder = EmptyFolder
    /\ before = EmptyFolder
    /\ pending = {}
    /\ written = {}
    /\ deleted = {}
    /\ stdout = <<>>
    /\ exit_status = -1
    /\ entries = <<>>
    /\ NoValidation
    /\ NoExtraction
    /\ NoDatabase

\* the locals of a call of the parser that has not started
NoScan ==
    /\ i = 0
    /\ last = "start"
    /\ result = <<>>
    /\ run = 1
    /\ first = <<>>

Init ==
    /\ lines \in Inputs
    /\ vocabulary = <<>>
    /\ pc = "scan"
    /\ args = PlainArgs("english")
    /\ NoScan
    /\ NoRun

\* the cursor moves and the entries found are put in front
AdvancePrepend(r) ==
    /\ i' = r.i
    /\ vocabulary' = r.add \o vocabulary
    /\ last' = r.pattern

\* the cursor moves and the entries found are appended
Advance(r) ==
    /\ i' = r.i
    /\ vocabulary' = vocabulary \o r.add
    /\ last' = r.pattern

\* lines 307-622: one iteration of the while loop
ScanStep ==
    /\ pc = "scan"
    /\ i < Len(lines)
    /\ Advance(english_step(lines, i))
    /\ UNCHANGED <<lines, pc, result, run, first, main_vars, entries, other_vars>>

\* line 674: the loop has ended, the bad entries are dropped
Filter ==
    /\ pc = "scan"
    /\ i >= Len(lines)
    /\ vocabulary' = FilterBad(vocabulary)
    /\ pc' = "dedup"
    /\ UNCHANGED <<lines, i, last, result, run, first, main_vars, entries, other_vars>>

\* lines 677-685: the first entry of each headword is kept and returned
Dedup ==
    /\ pc = "dedup"
    /\ result' = Deduplicate(vocabulary, 1, {})
    /\ pc' = "done"
    /\ UNCHANGED <<lines, i, vocabulary, last, run, first, main_vars, entries, other_vars>>

\* A second call with the same argument keeps its cursor where the first
\* call left it
ReinvokeKeepsCursor ==
    /\ pc = "done"
    /\ run = 1
    /\ run' = 2
    /\ first' = result
    /\ vocabulary' = <<>>
    /\ result' = <<>>
    /\ last' = "start"
    /\ pc' = "scan"
    /\ UNCHANGED <<lines, i, main_vars, entries, other_vars>>

\* A second call with the same argument: the locals of lines 161 and 306
\* are created afresh
Reinvoke ==
    /\ pc = "done"
    /\ run = 1
    /\ run' = 2
    /\ first' = result
    /\ i' = 0
    /\ vocabulary' = <<>>
    /\ result' = <<>>
    /\ last' = "start"
    /\ pc' = "scan"
    /\ UNCHANGED <<lines, main_vars, entries, other_vars>>

Next == ScanStep \/ Filter \/ Dedup \/ Reinvoke

Spec == Init /\ [][Next]_vars

-----------------------------------------------------------------------------
(* main as a state machine (lines 937-1036).                               *)

Say(message) == stdout' = Append(stdout, message)

\* open(name, "w") ... f.write(text)
WriteFile(name, text) ==
    /\ folder' = [n \in DOMAIN folder \cup {name} |-> IF n = name THEN RegularFile(text) ELSE folder[n]]
    /\ written' = written \cup {name}

\* file.unlink()
Unlink(name) ==
    /\ folder' = [n \in DOMAIN folder \ {name} |-> folder[n]]
    /\ deleted' = deleted \cup {name}

\* sys.exit(status), or the return of main
Exit(status) ==
    /\ exit_status' = status
    /\ pc' = "exit"

MainInit ==
    /\ args \in [force : BOOLEAN, reset : BOOLEAN, raw : BOOLEAN, language : Languages, deck : {"", "My Deck"}]
    /\ folder \in OldFolders
    /\ before = folder
    /\ pending = {}
    /\ written = {}
    /\ deleted = {}
    /\ stdout = <<>>
    /\ exit_status = -1
    /\ entries = <<>>
    /\ lines = <<>>
    /\ vocabulary = <<>>
    /\ pc = "start"
    /\ NoScan
    /\ NoValidation
    /\ NoExtraction
    /\ NoDatabase

\* lines 941-943: the input folder does not exist
MissingFolder ==
    /\ pc = "start"
    /\ Say("Error: Folder does not exist.")
    /\ Exit(1)
    /\ UNCHANGED <<lines, vocabulary, parser_vars, args, folder, before, pending, written, deleted, entries, other_vars>>

\* lines 945-970: the names are computed, the output folder is made, and
\* with --reset its entries are listed
Prepare ==
    /\ pc = "start"
    /\ pc' = IF args.reset THEN "reset" ELSE "check"
    /\ pending' = IF args.reset THEN DOMAIN folder ELSE {}
    /\ stdout' = IF args.reset THEN Append(stdout, "RESET MODE: Deleting all files") ELSE stdout
    /\ UNCHANGED <<lines, vocabulary, parser_vars, args, folder, before, written, deleted, exit_status, entries, other_vars>>

\* The loop body of lines 971-974 that unlinks nothing but the two files
\* the run writes
ResetVisitOwnFiles ==
    /\ pc = "reset"
    /\ \E file \in pending :
          /\ pending' = pending \ {file}
          /\ IF folder[file].kind = "file" /\ file \in {output_file, raw_file}
             THEN Unlink(file) /\ Say("Deleted: " \o file)
             ELSE UNCHANGED <<folder, deleted, stdout>>
    /\ UNCHANGED <<lines, vocabulary, parser_vars, args, before, written, exit_status, entries, other_vars, pc>>

\* lines 971-974: one entry of the output folder
ResetVisit ==
    /\ pc = "reset"
    /\ \E file \in pending :
          /\ pending' = pending \ {file}
          /\ IF folder[file].kind = "file"
             THEN Unlink(file) /\ Say("Deleted: " \o file)
             ELSE UNCHANGED <<folder, deleted, stdout>>
    /\ UNCHANGED <<lines, vocabulary, parser_vars, args, before, written, exit_status, entries, other_vars, pc>>

\* line 975: the loop has ended
ResetDone ==
    /\ pc = "reset"
    /\ pending = {}
    /\ pc' = "check"
    /\ UNCHANGED <<lines, vocabulary, parser_vars, args, folder, before, pending, written, deleted,
                   stdout, exit_status, entries, other_vars>>

\* The refusal of lines 978-984 ending with sys.exit(1)
RefuseExistingStatusOne ==
    /\ pc = "check"
    /\ ~ args.force /\ ~ args.reset
    /\ output_file \in DOMAIN folder
    /\ Say("Output file already exists. Use --force to overwrite existing files.")
    /\ Exit(1)
    /\ UNCHANGED <<lines, vocabulary, parser_vars, args, folder, before, pending, written, deleted, entries, other_vars>>

\* lines 978-984: the deck exists and the run may not replace it
RefuseExisting ==
    /\ pc = "check"
    /\ ~ args.force /\ ~ args.reset
    /\ output_file \in DOMAIN folder
    /\ Say("Output file already exists. Use --force to overwrite existing files.")
    /\ Exit(0)
    /\ UNCHANGED <<lines, vocabulary, parser_vars, args, folder, before, pending, written, deleted, entries, other_vars>>

\* lines 978-993: the check passes
PassCheck ==
    /\ pc = "check"
    /\ ~ (~ args.force /\ ~ args.reset /\ output_file \in DOMAIN folder)
    /\ pc' = "client"
    /\ UNCHANGED <<lines, vocabulary, parser_vars, args, folder, before, pending, written, deleted,
                   stdout, exit_status, entries, other_vars>>

\* lines 997 and 92-99: get_azure_client finds no credentials
NoCredentials ==
    /\ pc = "client"
    /\ Say("Error: No valid Azure credentials found.")
    /\ Exit(1)
    /\ UNCHANGED <<lines, vocabulary, parser_vars, args, folder, before, pending, written, deleted, entries, other_vars>>

\* lines 997 and 55-90: get_azure_client returns a client
Connect ==
    /\ pc = "client"
    /\ pc' = "extract"
    /\ UNCHANGED <<lines, vocabulary, parser_vars, args, folder, before, pending, written, deleted,
                   stdout, exit_status, entries, other_vars>>

\* lines 1001 and 128-130: the input folder holds no image
NoImages ==
    /\ pc = "extract"
    /\ Say("Error: No images found")
    /\ Exit(1)
    /\ UNCHANGED <<lines, vocabulary, parser_vars, args, folder, before, pending, written, deleted, entries, other_vars>>

\* lines 1001 and 134-146: the lines of the images, in the order of the
\* sorted file names
ExtractAll ==
    /\ pc = "extract"
    /\ lines' \in MainTexts
    /\ pc' = "raw"
    /\ UNCHANGED <<vocabulary, parser_vars, args, folder, before, pending, written, deleted,
                   stdout, exit_status, entries, other_vars>>

\* lines 1004-1007
SaveRaw ==
    /\ pc = "raw"
    /\ IF args.raw
       THEN WriteFile(raw_file, join("\n", lines)) /\ Say("Raw text saved")
       ELSE UNCHANGED <<folder, written, stdout>>
    /\ pc' = "parse"
    /\ UNCHANGED <<lines, vocabulary, parser_vars, args, before, pending, deleted, exit_status, entries, other_vars>>

\* line 1011
ParseVocabulary ==
    /\ pc = "parse"
    /\ vocabulary' = parse_vocabulary_lines(lines, args.language)
    /\ pc' = "create"
    /\ UNCHANGED <<lines, parser_vars, main_vars, entries, other_vars>>

\* lines 1013-1020: nothing was parsed
NoVocabulary ==
    /\ pc = "create"
    /\ vocabulary = <<>>
    /\ WriteFile(raw_file, join("\n", lines))
    /\ Say("Warning: No vocabulary entries could be parsed automatically.")
    /\ Exit(0)
    /\ UNCHANGED <<lines, vocabulary, parser_vars, args, before, pending, deleted, entries, other_vars>>

\* lines 1022-1036: the deck is written and main returns
CreateAnki ==
    /\ pc = "create"
    /\ vocabulary # <<>>
    /\ WriteFile(output_file,
           create_anki_file(vocabulary, deck_name_of(args.deck), default_notetype, args.language))
    /\ Say("SUCCESS!")
    /\ Exit(0)
    /\ UNCHANGED <<lines, vocabulary, parser_vars, args, before, pending, deleted, entries, other_vars>>

MainNext ==
    \/ MissingFolder \/ Prepare \/ ResetVisit \/ ResetDone \/ RefuseExisting \/ PassCheck
    \/ NoCredentials \/ Connect \/ NoImages \/ ExtractAll \/ SaveRaw
    \/ ParseVocabulary \/ NoVocabulary \/ CreateAnki

MainSpec == MainInit /\ [][MainNext]_vars

-----------------------------------------------------------------------------
(* The deck from the page to the reader: parse_vocabulary_lines, then      *)
(* create_anki_file, then load_anki_file of validate_vocabulary.py.        *)

DeckInit ==
    /\ lines \in DeckTexts
    /\ \E language \in Languages : args = PlainArgs(language)
    /\ vocabulary = <<>>
    /\ pc = "parse"
    /\ NoScan
    /\ NoRun

\* validate_vocabulary.py, line 419: the deck is read back
LoadAnki ==
    /\ pc = "exit"
    /\ output_file \in DOMAIN folder
    /\ entries' = load_anki_file(folder[output_file].text)
    /\ pc' = "loaded"
    /\ UNCHANGED <<lines, vocabulary, parser_vars, main_vars, other_vars>>

DeckNext == ParseVocabulary \/ NoVocabulary \/ CreateAnki \/ LoadAnki

DeckSpec == DeckInit /\ [][DeckNext]_vars

-----------------------------------------------------------------------------
(* The claims about the parser, checked under Spec.                        *)

\* C1: parse_english_vocabulary applied to ["misunderstood",
\* "missverstanden"] returns exactly the entry ("misunderstood",
\* "missverstanden").
C1_ScenarioC ==
    (pc = "done" /\ lines = ScenarioC) => result = << <<"misunderstood", "missverstanden">> >>

\* C2: a headword with its annotation on the same line (Scenario A) or
\* alone on the following line (Scenario B), followed by one capitalised
\* translation line, yields exactly one entry pairing the headword with
\* that line, and scanning the remaining lines adds no further entry.
C2_ScenariosAB ==
    /\ (pc = "done" /\ lines = ScenarioA) => result = << <<"personality", "Persönlichkeit">> >>
    /\ (pc = "done" /\ lines = ScenarioB) => result = << <<"to compromise", "Kompromisse eingehen">> >>
    /\ (lines \in {ScenarioA, ScenarioB} /\ i >= Len(lines)) => Len(vocabulary) = 1

\* Scenario B has been parsed: the cursor has passed the annotation and the
\* translation line, and one entry is returned.
C2_Witness ==
    /\ pc = "done" /\ lines = ScenarioB /\ i = Len(lines)
    /\ result = << <<"to compromise", "Kompromisse eingehen">> >>

\* C3: every entry of the list parse_english_vocabulary returns has a
\* headword of length at least 2 and a translation of length at least 2.
C3_EntryLengths ==
    pc = "done" => \A k \in DOMAIN result : Len(result[k][1]) >= 2 /\ Len(result[k][2]) >= 2

\* the lower-cased, trimmed headword of an entry
FoldedHeadword(entry) == strip(lower(entry[1]))

\* the indices of the entries that no earlier entry shares its headword with
FirstIndices(vocab) ==
    {k \in DOMAIN vocab : \A j \in 1..(k - 1) : FoldedHeadword(vocab[j]) # FoldedHeadword(vocab[k])}

\* the n-th smallest member of a set of numbers
Nth(S, n) == CHOOSE x \in S : Cardinality({y \in S : y < x}) = n - 1

\* C4: in the returned list no two entries have the same lower-cased,
\* trimmed headword, and the entry that survives for a headword is the
\* first one, in scan order, among the entries that passed the filter.
C4_FirstPerHeadword ==
    pc = "done" =>
        /\ \A a, b \in DOMAIN result :
              a # b => FoldedHeadword(result[a]) # FoldedHeadword(result[b])
        /\ result = [k \in 1..Cardinality(FirstIndices(vocabulary)) |->
                        vocabulary[Nth(FirstIndices(vocabulary), k)]]

\* Two filtered entries shared a headword and the later one was dropped.
C4_Witness ==
    /\ pc = "done" /\ result # <<>> /\ Len(result) < Len(vocabulary)
    /\ \E a, b \in DOMAIN vocabulary : a < b /\ vocabulary[a][1] # vocabulary[b][1]
                                       /\ FoldedHeadword(vocabulary[a]) = FoldedHeadword(vocabulary[b])

-----------------------------------------------------------------------------
(* The claims about the deck file, checked under DeckSpec.                 *)

\* the lines of a deck file after its header
BodyLines(text) == SelectSeq(split_on(text, "\n"), LAMBDA l : l # "" /\ ~ startswith(l, "#"))

\* the text of a body line before its first tab
LineHeadword(l) == split_on(l, "\t")[1]

\* C5: for every source language, the deck file written by
\* create_anki_file from the entries of parse_vocabulary_lines has no two
\* body lines with the same lower-cased headword.
C5_OneLinePerHeadword ==
    output_file \in written =>
        \A a, b \in DOMAIN BodyLines(folder[output_file].text) :
            a # b => lower(LineHeadword(BodyLines(folder[output_file].text)[a]))
                     # lower(LineHeadword(BodyLines(folder[output_file].text)[b]))

\* C6: an entry list whose sides all have length at least 2, written by
\* create_anki_file and read back by load_anki_file, comes back as the
\* same pairs in the same order.
C6_RoundTrip ==
    (/\ pc = "loaded"
     /\ \A k \in DOMAIN vocabulary : Len(vocabulary[k][1]) >= 2 /\ Len(vocabulary[k][2]) >= 2)
    => entries = vocabulary

-----------------------------------------------------------------------------
(* The claims about the output files, checked under MainSpec.              *)

\* the deck existed when the run started, and neither --force nor --reset
\* was given
Guarded == ~ args.force /\ ~ args.reset /\ output_file \in DOMAIN before

Refusal == "Output file already exists. Use --force to overwrite existing files."

\* C7, as stated: when the deck file exists and the run is started without
\* --force and without --reset, the run ends with a non-zero exit status.
C7_RefusalFails == (Guarded /\ pc = "exit") => exit_status # 0

\* C7, amended: such a run goes no further than the check and changes
\* nothing in the output folder; it ends with the refusal message and exit
\* status 0, or, when the input folder is missing, with that error and
\* exit status 1.
C7_RefusalExitsZero ==
    Guarded =>
        /\ pc \in {"start", "check", "exit"}
        /\ folder = before /\ written = {} /\ deleted = {}
        /\ pc = "exit" =>
              \/ exit_status = 0 /\ stdout = <<Refusal>>
              \/ exit_status = 1 /\ stdout = <<"Error: Folder does not exist.">>

\* The run has been refused.
C7_Witness == Guarded /\ pc = "exit" /\ exit_status = 0 /\ stdout = <<Refusal>>

\* C8: a run without --force and without --reset leaves the deck file and
\* the raw-text file that existed before it as they were.
C8_NoOverwrite ==
    (~ args.force /\ ~ args.reset) =>
        \A name \in {output_file, raw_file} \cap DOMAIN before :
            name \in DOMAIN folder /\ folder[name] = before[name]

\* C9: with --reset, every file of the output folder is deleted before
\* anything is written, the existing-output check does not stop the run,
\* which ends only by a fatal error or after writing, and a run that
\* completes leaves only files it wrote.
C9_ResetClears ==
    args.reset =>
        /\ written # {} => \A name \in DOMAIN before : before[name].kind = "file" => name \in deleted
        /\ \A k \in DOMAIN stdout : stdout[k] # Refusal
        /\ pc = "exit" => exit_status = 1 \/ written # {}
        /\ (pc = "exit" /\ exit_status = 0) =>
              \A name \in DOMAIN folder : folder[name].kind = "file" => name \in written

\* A reset run has completed in a folder that held a deck, notes and a
\* subfolder.
C9_Witness ==
    /\ args.reset /\ pc = "exit" /\ exit_status = 0
    /\ {output_file, "notes.txt", "media"} \subseteq DOMAIN before
    /\ output_file \in written /\ "notes.txt" \notin DOMAIN folder

-----------------------------------------------------------------------------
(* The claims about the order of the entries and of the patterns, checked  *)
(* under Spec.                                                             *)

RECURSIVE IsSubsequence(_, _)
\* a is b with some members left out, the others in their order
IsSubsequence(a, b) ==
    IF a = <<>> THEN TRUE
    ELSE IF b = <<>> THEN FALSE
    ELSE IF Head(a) = Head(b) THEN IsSubsequence(Tail(a), Tail(b))
    ELSE IsSubsequence(a, Tail(b))

\* the cursor stands on a line of the page
Scanning == pc = "scan" /\ i < Len(lines)

\* the entries an iteration has added to the list
Emitted == SubSeq(vocabulary', Len(vocabulary) + 1, Len(vocabulary'))

\* C11: an iteration at cursor i moves the cursor forward and appends at
\* most one entry, whose headword starts with a word of line i, behind the
\* entries of the earlier lines; the filter and the deduplication only
\* leave entries out, they never reorder them.
C11_ScanOrder ==
    [][/\ Scanning =>
             /\ i' > i
             /\ Len(vocabulary') <= Len(vocabulary) + 1
             /\ SubSeq(vocabulary', 1, Len(vocabulary)) = vocabulary
             /\ \A k \in DOMAIN Emitted :
                   contains(Line(lines, i), split(Emitted[k][1])[1])
       /\ (pc = "scan" /\ pc' = "dedup") => IsSubsequence(vocabulary', vocabulary)
       /\ (pc = "dedup" /\ pc' = "done") => IsSubsequence(result', vocabulary)]_vars

\* A page has been parsed into two entries of different lines, after the
\* filter or the deduplication had dropped another.
C11_Witness ==
    /\ pc = "done" /\ Len(result) >= 2 /\ run = 1
    /\ result[1][1] # result[2][1]
    /\ Len(vocabulary) >= 2

\* the line at the cursor is neither empty nor a section header
Eligible == Scanning /\ Line(lines, i) # "" /\ ~ IsSectionHeader(Line(lines, i))

\* C12, as stated: a line that satisfies both the multi-headword pattern and
\* the headword-with-annotation pattern is handled by the multi-headword
\* pattern: its first headword is paired with the following line when
\* that line is a translation.
C12_MultiHeadwordFirst ==
    [][(/\ Eligible
        /\ SameLineMatch(Line(lines, i)) # None
        /\ MultiWordFirst(Line(lines, i)) # None
        /\ Len(strip(MultiWordFirst(Line(lines, i))[1])) >= 3
        /\ i + 1 < Len(lines)
        /\ is_likely_german(Line(lines, i + 1))
        /\ ~ should_skip_line(Line(lines, i + 1)))
       => Emitted = << <<strip(MultiWordFirst(Line(lines, i))[1]), Line(lines, i + 1)>> >>]_vars

\* C12, amended: the headword-with-annotation pattern is tried first and,
\* when it matches, the fallback collection decides the iteration; the
\* multi-headword, inline, plural, split, reflexive and bare patterns are
\* reached, in this order, only by a line it does not match.
C12_SameLineFirst ==
    [][Eligible =>
          /\ SameLineMatch(Line(lines, i)) # None =>
                /\ last' \in {"fallback", "short"}
                /\ i' = i + 1
                /\ \A k \in DOMAIN Emitted :
                      Emitted[k][1] = HeadwordOf(SameLineMatch(Line(lines, i))[1])
          /\ last' = "multi" =>
                /\ SameLineMatch(Line(lines, i)) = None
                /\ Emitted = << <<strip(MultiWordFirst(Line(lines, i))[1]), Line(lines, i + 1)>> >>
          /\ last' = "inline" =>
                /\ SameLineMatch(Line(lines, i)) = None
                /\ InlineMatch(Line(lines, i)) # None
                /\ \/ MultiWordFirst(Line(lines, i)) = None
                   \/ i + 1 >= Len(lines)
                   \/ Len(strip(MultiWordFirst(Line(lines, i))[1])) < 3
                   \/ ~ is_likely_german(Line(lines, i + 1))
                   \/ should_skip_line(Line(lines, i + 1))
          /\ last' \in {"fallback", "short"} =>
                \/ SameLineMatch(Line(lines, i)) # None
                \/ PluralMatch(Line(lines, i)) # None
          /\ last' \in {"split", "reflexive", "bare"} =>
                /\ SameLineMatch(Line(lines, i)) = None
                /\ PluralMatch(Line(lines, i)) = None
          /\ last' = "split" => WordMatch(Line(lines, i)) # None /\ i' = i + 2
          /\ last' = "reflexive" =>
                /\ ReflexiveMatch(Line(lines, i))
                /\ \/ WordMatch(Line(lines, i)) = None
                   \/ FindPron(lines, i + 1, Min2(i + 4, Len(lines))) = -1
          /\ last' = "bare" =>
                /\ SimpleWordMatch(Line(lines, i)) # None
                /\ ~ has_nearby_pron(lines, i)
                /\ ~ (ReflexiveMatch(Line(lines, i))
                      /\ ReflexiveCollect(lines, i + 1, Min2(i + 5, Len(lines)), <<>>) # <<>>)]_vars

\* A line with two annotated headwords, matched by both patterns, has been
\* handled by the fallback collection, which joined a hyphenated
\* translation the multi-headword pattern would have cut.
C12_Witness ==
    /\ pc = "scan" /\ i = 1 /\ last = "fallback" /\ Len(lines) >= 2
    /\ SameLineMatch(Line(lines, 0)) # None /\ MultiWordFirst(Line(lines, 0)) # None
    /\ is_likely_german(Line(lines, 1))
    /\ vocabulary # <<>> /\ vocabulary[1][2] # Line(lines, 1)

\* headword and translation are the same after case-folding
Identical(entry) == strip(lower(entry[1])) = strip(lower(entry[2]))

\* C13: the filter keeps an entry whose headword equals its translation
\* after case-folding exactly when the headword is on the loanword list:
\* ("digital", "digital") and ("cover", "cover") are kept, ("happy", "happy")
\* is dropped.
C13_IdenticalPairs ==
    [][(pc = "scan" /\ pc' = "dedup") =>
          /\ \A k \in DOMAIN vocabulary :
                Identical(vocabulary[k]) =>
                    ((\E j \in DOMAIN vocabulary' : vocabulary'[j] = vocabulary[k])
                        <=> lower(vocabulary[k][1]) \in loanwords)
          /\ \A pair \in {<<"digital", "digital">>, <<"cover", "Cover">>, <<"happy", "happy">>} :
                (\E k \in DOMAIN vocabulary : vocabulary[k] = pair)
                    => ((\E j \in DOMAIN vocabulary' : vocabulary'[j] = pair) <=> pair[1] # "happy")]_vars

\* The filter has kept ("digital", "digital") and ("cover", "Cover") of a
\* page that also paired "happy" with "happy".
C13_Witness ==
    /\ pc = "dedup"
    /\ Len(lines) = 6 /\ Line(lines, 5) = "happy" /\ i = Len(lines)
    /\ vocabulary = << <<"digital", "digital">>, <<"cover", "Cover">> >>

-----------------------------------------------------------------------------
(* validate_vocabulary (validate_vocabulary.py, lines 183-254) as a state  *)
(* machine: the credentials first, then one step per iteration of the loop *)
(* over the entries.  The translator is the environment: each call of      *)
(* translate_text returns None or a text.                                  *)

MaxEntries == 3

\* pairs (foreign, ocr translation) as load_anki_file returns them
EntryPool ==
    {<<"la maison", "Haus">>, <<"le chapeau", "Hut">>, <<"à", "zu Hause">>, <<"le chat", "K">>}

\* the lists of at most MaxEntries different entries of the pool
ValidationInputs ==
    {es \in UNION {[1..n -> EntryPool] : n \in 0..MaxEntries} :
        \A k, l \in DOMAIN es : k # l => es[k] # es[l]}

\* what the translator may answer
TranslatorAnswers == {"Haus", "Hof", "das Haus"}

\* --threshold, in tenths; 3 is the default of line 364
ThresholdTenths == {2, 3, 5}

RawTexts == {"", "Haus\nHut"}

\* str.ljust, the padding of the format specification :<30
ljust(s, width) ==
    IF Len(s) >= width THEN s
    ELSE s \o SubSeq("                              ", 1, width - Len(s))

\* line 200
Progress(k, n, foreign) ==
    "\r[" \o ToString(k) \o "/" \o ToString(n) \o "] Checking: "
        \o ljust(SubSeq(foreign, 1, Min2(30, Len(foreign))), 30)

\* a test of the headword alone
too_short_headword(entry) == Len(entry[1]) < 2

\* line 203
too_short(entry) == Len(entry[1]) < 2 \/ Len(entry[2]) < 2

\* lines 204-210
short_result(entry) ==
    [foreign |-> entry[1], ocr |-> entry[2], translator |-> None, similarity |-> FZero,
     reason |-> "Entry too short"]

\* lines 217-221
error_result(entry) ==
    [foreign |-> entry[1], ocr |-> entry[2], reason |-> "Translation API error"]

\* line 232
in_raw(ocr_translation, raw) ==
    IF raw # "" THEN contains(lower(raw), lower(ocr_translation)) ELSE TRUE

\* lines 229-242, given the two scores of lines 225 and 226
EntryResult(entry, translator_result, seq_similarity, word_sim, raw) ==
    [foreign |-> entry[1], ocr |-> entry[2], translator |-> translator_result,
     similarity |-> combined_score(seq_similarity, word_sim),
     seq_similarity |-> seq_similarity, word_overlap |-> word_sim,
     in_raw_text |-> in_raw(entry[2], raw)]

\* lines 225-242
entry_result(entry, translator_result, raw) ==
    EntryResult(entry, translator_result, similarity_score(entry[2], translator_result),
                word_overlap_score(entry[2], translator_result), raw)

\* line 247
WithReason(r) ==
    [foreign |-> r.foreign, ocr |-> r.ocr, translator |-> r.translator,
     similarity |-> r.similarity, seq_similarity |-> r.seq_similarity,
     word_overlap |-> r.word_overlap, in_raw_text |-> r.in_raw_text,
     reason |-> "Low similarity (" \o FormatTwoPlaces(r.similarity) \o ")"]

\* lines 244-248
Verdict(r, threshold) ==
    IF FGreaterEqual(r.similarity, threshold)
    THEN results' = [results EXCEPT !.valid = Append(@, r)]
    ELSE results' = [results EXCEPT !.suspicious = Append(@, WithReason(r))]

\* the variables that a validation run leaves alone
validate_idle == <<lines, vocabulary, last, result, run, first, folder, before, pending,
                   written, deleted, exit_status, extract_vars, db_vars>>

\* validate_vocabulary is called with the entries of the deck
ValidateStart(inputs) ==
    /\ entries \in inputs
    /\ \E t \in ThresholdTenths :
           args = [from_lang |-> "fr", to_lang |-> "de", threshold |-> FRatio(t, 10)]
    /\ raw_text \in RawTexts
    /\ results = [valid |-> <<>>, suspicious |-> <<>>, errors |-> <<>>]
    /\ timeline = <<>>
    /\ pc = "credential"
    /\ lines = <<>>
    /\ vocabulary = <<>>
    /\ NoScan
    /\ folder = EmptyFolder
    /\ before = EmptyFolder
    /\ pending = {}
    /\ written = {}
    /\ deleted = {}
    /\ stdout = <<>>
    /\ exit_status = -1
    /\ NoExtraction
    /\ NoDatabase

ValidateInit == ValidateStart(ValidationInputs)

\* lines 185-196: the token is obtained
GetToken ==
    /\ pc = "credential"
    /\ stdout' = stdout \o <<"\nGetting Azure credentials...",
                             "\nValidating " \o ToString(Len(entries)) \o " vocabulary entries...">>
    /\ pc' = "loop"
    /\ UNCHANGED <<i, entries, args, results, timeline, raw_text, validate_idle>>

\* lines 185-187: get_token raises and the exception leaves the function
TokenFails ==
    /\ pc = "credential"
    /\ stdout' = Append(stdout, "\nGetting Azure credentials...")
    /\ pc' = "raised"
    /\ UNCHANGED <<i, entries, args, results, timeline, raw_text, validate_idle>>

\* lines 198-211: an entry with a side of fewer than two characters
TooShort ==
    /\ pc = "loop"
    /\ i < Len(entries)
    /\ too_short(entries[i + 1])
    /\ stdout' = Append(stdout, Progress(i + 1, Len(entries), entries[i + 1][1]))
    /\ results' = [results EXCEPT !.suspicious = Append(@, short_result(entries[i + 1]))]
    /\ i' = i + 1
    /\ UNCHANGED <<pc, entries, args, timeline, raw_text, validate_idle>>

\* a failed call that ends the run and records nothing
TranslationErrorAborts ==
    /\ pc = "loop"
    /\ i < Len(entries)
    /\ ~ too_short(entries[i + 1])
    /\ timeline' = Append(timeline, <<"translate", i + 1, None>>)
    /\ stdout' = Append(stdout, Progress(i + 1, Len(entries), entries[i + 1][1]))
    /\ pc' = "raised"
    /\ UNCHANGED <<i, entries, args, results, raw_text, validate_idle>>

\* lines 198-222: translate_text returns None
TranslationError ==
    /\ pc = "loop"
    /\ i < Len(entries)
    /\ ~ too_short(entries[i + 1])
    /\ timeline' = Append(timeline, <<"translate", i + 1, None>>)
    /\ \E raised \in BOOLEAN :
           stdout' = stdout \o <<Progress(i + 1, Len(entries), entries[i + 1][1])>>
                            \o (IF raised THEN <<"  Translation error">> ELSE <<>>)
    /\ results' = [results EXCEPT !.errors = Append(@, error_result(entries[i + 1]))]
    /\ i' = i + 1
    /\ UNCHANGED <<pc, entries, args, raw_text, validate_idle>>

\* lines 198-251: translate_text returns a text, the entry is scored and
\* filed, and the loop sleeps
Score ==
    /\ pc = "loop"
    /\ i < Len(entries)
    /\ ~ too_short(entries[i + 1])
    /\ \E translator_result \in TranslatorAnswers :
           /\ Verdict(entry_result(entries[i + 1], translator_result, raw_text), args.threshold)
           /\ timeline' = timeline \o << <<"translate", i + 1, <<translator_result>> >>,
                                          <<"sleep", i + 1>> >>
    /\ stdout' = Append(stdout, Progress(i + 1, Len(entries), entries[i + 1][1]))
    /\ i' = i + 1
    /\ UNCHANGED <<pc, entries, args, raw_text, validate_idle>>

\* lines 253-254: the loop has ended
ReturnResults ==
    /\ pc = "loop"
    /\ i = Len(entries)
    /\ stdout' = Append(stdout, "\n----------")
    /\ pc' = "returned"
    /\ UNCHANGED <<i, entries, args, results, timeline, raw_text, validate_idle>>

ValidateNext == GetToken \/ TokenFails \/ TooShort \/ TranslationError \/ Score \/ ReturnResults

ValidateSpec == ValidateInit /\ [][ValidateNext]_vars

-----------------------------------------------------------------------------
(* extract_all_images (create_anki_from_images.py, lines 121-146) as a     *)
(* state machine: the listing, then one step per image.  The OCR service   *)
(* is the environment: each call returns the lines of the image or raises. *)
(* The loop of src/extract_vocabulary.py (lines 61-71) is the same.        *)

\* the characters of file names in the order of their code points
CodePointOrder == ".0123456789ABCDEFGHIJKLMNOPQRSTUVWXYZ_abcdefghijklmnopqrstuvwxyz"

RECURSIVE StrLess(_, _)
\* a < b for two str
StrLess(a, b) ==
    IF b = "" THEN FALSE
    ELSE IF a = "" THEN TRUE
    ELSE IF Head(a) = Head(b) THEN StrLess(Tail(a), Tail(b))
    ELSE IndexIn(SubSeq(a, 1, 1), CodePointOrder) < IndexIn(SubSeq(b, 1, 1), CodePointOrder)

\* the least of a set of names
LeastName(S) == CHOOSE x \in S : \A y \in S : x = y \/ StrLess(x, y)

RECURSIVE SortNames(_)
\* list.sort() of the names of S
SortNames(S) == IF S = {} THEN <<>> ELSE <<LeastName(S)>> \o SortNames(S \ {LeastName(S)})

\* line 123
image_extensions == {".jpg", ".jpeg", ".png", ".bmp", ".gif"}

\* line 125
is_image(f) == \E ext \in image_extensions : endswith(lower(f), ext)

\* what os.listdir may return
FileNames == {"page2.jpg", "page1.jpg", "Page3.PNG", "page10.jpeg", "notes.txt"}

\* what the OCR of one image may read
PageLines == {<<>>, <<"Vocabulary">>, <<"house [haus]", "Haus">>}

\* the variables that extract_all_images leaves alone
extract_idle == <<vocabulary, last, result, run, first, args, folder, before, pending,
                  written, deleted, entries, validate_vars, db_vars>>

ExtractInit ==
    /\ listing \in SUBSET FileNames
    /\ images = <<>>
    /\ ocr_log = <<>>
    /\ lines = <<>>
    /\ pc = "list"
    /\ args = PlainArgs("english")
    /\ vocabulary = <<>>
    /\ NoScan
    /\ folder = EmptyFolder
    /\ before = EmptyFolder
    /\ pending = {}
    /\ written = {}
    /\ deleted = {}
    /\ stdout = <<>>
    /\ exit_status = -1
    /\ entries = <<>>
    /\ NoValidation
    /\ NoDatabase

\* lines 123-130: the folder holds no image
NoImagesFound ==
    /\ pc = "list"
    /\ SortNames({f \in listing : is_image(f)}) = <<>>
    /\ images' = <<>>
    /\ Say("Error: No images found")
    /\ Exit(1)
    /\ UNCHANGED <<lines, i, listing, ocr_log, extract_idle>>

\* lines 123-134: the images are listed and sorted
ListImages ==
    /\ pc = "list"
    /\ SortNames({f \in listing : is_image(f)}) # <<>>
    /\ images' = SortNames({f \in listing : is_image(f)})
    /\ Say("Found " \o ToString(Cardinality({f \in listing : is_image(f)})) \o " images to process...")
    /\ pc' = "images"
    /\ UNCHANGED <<lines, i, listing, ocr_log, exit_status, extract_idle>>

\* line 137
Processing(k, n, image_name) ==
    "Processing " \o ToString(k) \o "/" \o ToString(n) \o ": " \o image_name

\* lines 135-142: the OCR call returns the lines of the image
ExtractImage ==
    /\ pc = "images"
    /\ i < Len(images)
    /\ \E text_lines \in PageLines :
           /\ lines' = lines \o text_lines
           /\ ocr_log' = Append(ocr_log, [image |-> images[i + 1], raised |-> FALSE, lines |-> text_lines])
           /\ stdout' = stdout \o <<Processing(i + 1, Len(images), images[i + 1]),
                                    "  Extracted " \o ToString(Len(text_lines)) \o " lines">>
    /\ i' = i + 1
    /\ UNCHANGED <<pc, listing, images, exit_status, extract_idle>>

\* a failure that ends the batch
ExtractFailsStops ==
    /\ pc = "images"
    /\ i < Len(images)
    /\ ocr_log' = Append(ocr_log, [image |-> images[i + 1], raised |-> TRUE, lines |-> <<>>])
    /\ stdout' = stdout \o <<Processing(i + 1, Len(images), images[i + 1]), "  Error">>
    /\ pc' = "returned"
    /\ UNCHANGED <<i, lines, listing, images, exit_status, extract_idle>>

\* lines 135-144: the OCR call raises
ExtractFails ==
    /\ pc = "images"
    /\ i < Len(images)
    /\ ocr_log' = Append(ocr_log, [image |-> images[i + 1], raised |-> TRUE, lines |-> <<>>])
    /\ stdout' = stdout \o <<Processing(i + 1, Len(images), images[i + 1]), "  Error">>
    /\ i' = i + 1
    /\ UNCHANGED <<pc, lines, listing, images, exit_status, extract_idle>>

\* line 146
ReturnText ==
    /\ pc = "images"
    /\ i = Len(images)
    /\ pc' = "returned"
    /\ UNCHANGED <<lines, i, listing, images, ocr_log, stdout, exit_status, extract_idle>>

ExtractNext == NoImagesFound \/ ListImages \/ ExtractImage \/ ExtractFails \/ ReturnText

ExtractSpec == ExtractInit /\ [][ExtractNext]_vars

-----------------------------------------------------------------------------
(* import_anki_file (vocabulary_db.py, lines 109-171) as a state machine   *)
(* over the table vocabulary: a call opens the file, handles one line per  *)
(* step and commits.  A call that raises leaves through the exception and  *)
(* its connection is closed without a commit.                              *)

MaxImports == 2

\* the text files of the model, by path
AnkiFiles ==
    [p \in {"unit-2/anki_france_unit-2.txt", "old/anki_france_unit-2.txt", "anki_english.txt"} |->
        IF p = "unit-2/anki_france_unit-2.txt"
        THEN "#separator:Tab\nla maison\tHaus\nle chat\tKatze\n la maison \tHeim  \n"
        ELSE IF p = "old/anki_france_unit-2.txt"
        THEN "la maison\tHeim\n\nLa maison\tHaus\tn f\n"
        ELSE "house\tHaus\r\nhouse\n"]

RawFiles == [p \in {"raw.txt"} |-> "la maison [mezo]\nHaus\nle chien"]

\* the arguments of a call: args.anki_file, args.source, args.raw of main
ImportArgs ==
    [anki_file : DOMAIN AnkiFiles \cup {"nothing.txt"}, source : {None, <<"shared">>},
     raw : {None, <<"raw.txt">>}]

\* the positions of c in s
Positions(s, c) == {k \in 1..Len(s) : SubSeq(s, k, k) = c}

\* Path(p).name
basename(p) == IF Positions(p, "/") = {} THEN p ELSE SubSeq(p, SetMax(Positions(p, "/")) + 1, Len(p))

\* Path(p).stem
stem(p) ==
    IF Positions(basename(p), ".") \ {1} = {} THEN basename(p)
    ELSE SubSeq(basename(p), 1, SetMax(Positions(basename(p), ".")) - 1)

\* (unit-?\d+) under re.IGNORECASE
UnitPattern == Cat(<<ILit("unit"), Opt(Lit("-")), Plus(Cls(Digit))>>)

RECURSIVE UnitSearch(_, _)
\* line 121: re.search from position start on
UnitSearch(s, start) ==
    IF start > Len(s) THEN None
    ELSE IF GroupSpan(Cat(<<>>), UnitPattern, FALSE, Cat(<<>>), s, start) # <<>>
    THEN GroupText(s, GroupSpan(Cat(<<>>), UnitPattern, FALSE, Cat(<<>>), s, start))
    ELSE UnitSearch(s, start + 1)

\* lines 121-122, None or the one-tuple of the text
source_unit(anki_file) == UnitSearch(stem(anki_file), 0)

\* str.find
find(s, t) ==
    IF contains(s, t) THEN SetMin({k \in 0..(Len(s) - Len(t)) : SubSeq(s, k + 1, k + Len(t)) = t})
    ELSE -1

Max2(a, b) == IF a > b THEN a ELSE b

\* lines 181-184 and 189-192
ContextAt(raw, idx, length, context_chars) ==
    <<Slice(raw, Max2(0, idx - context_chars), Min2(Len(raw), idx + length + context_chars))>>

\* line 187
first_word(word) == IF contains(word, " ") THEN split(word)[1] ELSE word

\* lines 174-194, None or the one-tuple of the text
find_ocr_context(word, raw, context_chars) ==
    IF raw = "" THEN None
    ELSE IF find(lower(raw), lower(word)) >= 0
    THEN ContextAt(raw, find(lower(raw), lower(word)), Len(word), context_chars)
    ELSE IF find(lower(raw), lower(first_word(word))) >= 0
    THEN ContextAt(raw, find(lower(raw), lower(first_word(word))), Len(first_word(word)), context_chars)
    ELSE None

\* the default of context_chars, line 174
default_context_chars == 200

\* a SELECT that finds nothing
exists_row_never(table, foreign_word, source) == FALSE

\* lines 149-153: the SELECT finds a row
exists_row(table, foreign_word, source) ==
    \E k \in DOMAIN table : table[k].foreign_word = foreign_word /\ table[k].source_file = source

\* lines 160-163 and the defaults of the schema (lines 55-70)
new_row(table, foreign_word, translation, source, unit, raw) ==
    [id |-> Len(table) + 1, foreign_word |-> foreign_word, translation |-> translation,
     source_file |-> source, source_unit |-> unit,
     ocr_context |-> IF raw # "" THEN find_ocr_context(foreign_word, raw, default_context_chars) ELSE None,
     status |-> "pending"]

\* the log of the calls
Logged(outcome) ==
    imports' = Append(imports, [anki_file |-> args.anki_file, source |-> args.source, raw |-> args.raw,
                                outcome |-> outcome, imported |-> imported, skipped |-> skipped])

\* the variables that an import leaves alone
db_idle == <<vocabulary, last, result, run, first, folder, before, pending, written, deleted,
             exit_status, entries, results, timeline, extract_vars, session_vars>>

ImportInit ==
    /\ vocabulary_table = <<>>
    /\ imports = <<>>
    /\ NoImport
    /\ NoSession
    /\ pc = "idle"
    /\ args = [anki_file |-> "", source |-> None, raw |-> None]
    /\ lines = <<>>
    /\ raw_text = ""
    /\ vocabulary = <<>>
    /\ NoScan
    /\ folder = EmptyFolder
    /\ before = EmptyFolder
    /\ pending = {}
    /\ written = {}
    /\ deleted = {}
    /\ stdout = <<>>
    /\ exit_status = -1
    /\ entries = <<>>
    /\ results = [valid |-> <<>>, suspicious |-> <<>>, errors |-> <<>>]
    /\ timeline = <<>>
    /\ NoExtraction

\* lines 111-114: the file does not exist
ImportMissing ==
    /\ pc = "idle"
    /\ Len(imports) < MaxImports
    /\ \E a \in ImportArgs :
           /\ a.anki_file \notin DOMAIN AnkiFiles
           /\ args' = a
           /\ imports' = Append(imports, [anki_file |-> a.anki_file, source |-> a.source, raw |-> a.raw,
                                          outcome |-> "missing", imported |-> 0, skipped |-> 0])
    /\ Say("Error: File not found")
    /\ UNCHANGED <<pc, lines, i, raw_text, vocabulary_table, source_name, imported, skipped, db_idle>>

\* lines 111-137: the file is opened
ImportOpen ==
    /\ pc = "idle"
    /\ Len(imports) < MaxImports
    /\ \E a \in ImportArgs :
           /\ a.anki_file \in DOMAIN AnkiFiles
           /\ args' = a
           /\ source_name' = IF a.source = None THEN stem(a.anki_file) ELSE a.source[1]
           /\ raw_text' = IF a.raw # None /\ a.raw[1] \in DOMAIN RawFiles THEN RawFiles[a.raw[1]] ELSE ""
           /\ lines' = split_on(UniversalNewlines(AnkiFiles[a.anki_file]), "\n")
    /\ imported' = 0
    /\ skipped' = 0
    /\ i' = 0
    /\ pc' = "importing"
    /\ UNCHANGED <<vocabulary_table, imports, stdout, db_idle>>

\* lines 143-164, for a stripped line with a tab
ImportParts(parts) ==
    IF Len(parts) < 2
    THEN UNCHANGED <<vocabulary_table, imported, skipped>>
    ELSE IF exists_row(vocabulary_table, strip(parts[1]), source_name)
    THEN skipped' = skipped + 1 /\ UNCHANGED <<vocabulary_table, imported>>
    ELSE /\ vocabulary_table' = Append(vocabulary_table,
                 new_row(vocabulary_table, strip(parts[1]), strip(parts[2]), source_name,
                         source_unit(args.anki_file), raw_text))
         /\ imported' = imported + 1
         /\ UNCHANGED skipped

\* lines 138-164: one line of the file
ImportLine ==
    /\ pc = "importing"
    /\ i < Len(lines)
    /\ IF strip(lines[i + 1]) = "" \/ ~ contains(strip(lines[i + 1]), "\t")
       THEN UNCHANGED <<vocabulary_table, imported, skipped>>
       ELSE ImportParts(split_on(strip(lines[i + 1]), "\t"))
    /\ i' = i + 1
    /\ UNCHANGED <<pc, args, lines, raw_text, source_name, imports, stdout, db_idle>>

\* lines 166-171: the commit and the report
ImportCommit ==
    /\ pc = "importing"
    /\ i = Len(lines)
    /\ Logged("returned")
    /\ stdout' = stdout \o <<"Imported " \o ToString(imported) \o " entries">>
                        \o (IF skipped # 0 THEN <<"Skipped " \o ToString(skipped) \o " duplicates">> ELSE <<>>)
    /\ pc' = "idle"
    /\ UNCHANGED <<args, lines, i, raw_text, vocabulary_table, source_name, imported, skipped, db_idle>>

\* an exception between the opening and the commit: the rows the call has
\* inserted are rolled back
ImportRaises ==
    /\ pc = "importing"
    /\ vocabulary_table' = SubSeq(vocabulary_table, 1, Len(vocabulary_table) - imported)
    /\ Logged("raised")
    /\ pc' = "idle"
    /\ UNCHANGED <<args, lines, i, raw_text, source_name, imported, skipped, stdout, db_idle>>

ImportNext == ImportMissing \/ ImportOpen \/ ImportLine \/ ImportCommit \/ ImportRaises

ImportSpec == ImportInit /\ [][ImportNext]_vars

-----------------------------------------------------------------------------
(* The two parsers step by step: parse_vocabulary_lines hands an English   *)
(* page to parse_english_vocabulary (line 698) and scans every other page  *)
(* itself (lines 709-831).                                                 *)

\* Pages of a French or German book
FrenchTexts == SeqsUpTo(FrenchPool, MaxFrenchLines) \cup FrenchDocuments

CursorInit ==
    /\ \/ lines \in Inputs /\ args = PlainArgs("english")
       \/ lines \in FrenchTexts /\ \E language \in {"german", "french"} : args = PlainArgs(language)
    /\ vocabulary = <<>>
    /\ pc = "scan"
    /\ NoScan
    /\ NoRun

\* lines 710-829: one iteration of the while loop
FrenchStep ==
    /\ pc = "scan"
    /\ args.language # "english"
    /\ i < Len(lines)
    /\ Advance(french_step(lines, i, args.language))
    /\ UNCHANGED <<lines, pc, result, run, first, main_vars, entries, other_vars>>

\* line 831: the loop has ended
FrenchReturn ==
    /\ pc = "scan"
    /\ args.language # "english"
    /\ i >= Len(lines)
    /\ result' = vocabulary
    /\ pc' = "done"
    /\ UNCHANGED <<lines, i, vocabulary, last, run, first, main_vars, entries, other_vars>>

\* line 698: the page goes to parse_english_vocabulary
EnglishStep == args.language = "english" /\ ScanStep
EnglishFilter == args.language = "english" /\ Filter
EnglishDedup == args.language = "english" /\ Dedup

CursorNext == EnglishStep \/ EnglishFilter \/ EnglishDedup \/ FrenchStep \/ FrenchReturn

\* the iteration at the cursor
CursorStep ==
    IF args.language = "english" THEN english_step(lines, i)
    ELSE french_step(lines, i, args.language)

\* the iteration changes the state
Moves(r) == r.i # i \/ r.add # <<>> \/ r.pattern # last

\* ENABLED <<CursorNext>>_vars: a step that changes the state can be taken
CursorEnabled ==
    \/ pc = "dedup"
    \/ pc = "scan" /\ i >= Len(lines)
    \/ pc = "scan" /\ i < Len(lines) /\ Moves(CursorStep)

\* The interpreter goes on while there is a statement to execute: weak
\* fairness of the next-state action, WF_vars(CursorNext), with its
\* enabling condition written out
CursorFairness == []<>(~ CursorEnabled) \/ []<><<CursorNext>>_vars

CursorSpec == CursorInit /\ [][CursorNext]_vars /\ CursorFairness

-----------------------------------------------------------------------------
(* The claims about the validation, checked under ValidateSpec.            *)

\* the sequence similarity of two texts as the fraction 2M/T, not rounded
ExactSequence(a, b) ==
    IF a = "" \/ b = "" THEN [num |-> 0, den |-> 1]
    ELSE IF Len(Normalized(a)) + Len(Normalized(b)) = 0 THEN [num |-> 1, den |-> 1]
    ELSE [num |-> 2 * Matches(Normalized(a), Normalized(b), 0, Len(Normalized(a)), 0, Len(Normalized(b))),
          den |-> Len(Normalized(a)) + Len(Normalized(b))]

\* the token overlap of two texts as a fraction, not rounded
ExactOverlap(a, b) ==
    IF a = "" \/ b = "" \/ Words(a) = {} \/ Words(b) = {} THEN [num |-> 0, den |-> 1]
    ELSE [num |-> Cardinality(Words(a) \cap Words(b)), den |-> Cardinality(Words(a) \cup Words(b))]

\* 0.6 * s + 0.4 * w >= t / 10 in exact arithmetic
ExactAtLeast(s, w, t) == 6 * s.num * w.den + 4 * w.num * s.den >= t * s.den * w.den

\* the threshold of the run, in tenths
Tenths == CHOOSE t \in ThresholdTenths : FRatio(t, 10) = args.threshold

\* the entries of a result list that were translated and scored
Scored(list) == {k \in DOMAIN list : "seq_similarity" \in DOMAIN list[k]}

C14_DoubleVerdict ==
    /\ \A k \in Scored(results.valid) :
           /\ results.valid[k].similarity =
                  combined_score(results.valid[k].seq_similarity, results.valid[k].word_overlap)
           /\ FGreaterEqual(results.valid[k].similarity, args.threshold)
    /\ \A k \in Scored(results.suspicious) :
           /\ results.suspicious[k].similarity =
                  combined_score(results.suspicious[k].seq_similarity, results.suspicious[k].word_overlap)
           /\ ~ FGreaterEqual(results.suspicious[k].similarity, args.threshold)

\* An entry whose exact score equals the threshold 0.2 was scored.
C14_Boundary ==
    /\ Tenths = 2
    /\ \E k \in Scored(results.suspicious) :
           /\ results.suspicious[k].ocr = "Hut"
           /\ results.suspicious[k].translator = "Hof"
           /\ results.suspicious[k].reason = "Low similarity (0.20)"

\* the double 1.0
One == FRatio(1, 1)

\* C15 (Scenario E): an entry with the OCR translation "Haus" for which the
\* translator answers "Haus" has sequence similarity 1.0, token overlap 1.0
\* and combined score 1.0, and is filed under valid, never under suspicious.
C15_ScenarioE ==
    /\ \A k \in Scored(results.valid) :
           (results.valid[k].ocr = "Haus" /\ results.valid[k].translator = "Haus")
           => /\ results.valid[k].seq_similarity = One
              /\ results.valid[k].word_overlap = One
              /\ results.valid[k].similarity = One
    /\ \A k \in Scored(results.suspicious) :
           ~ (results.suspicious[k].ocr = "Haus" /\ results.suspicious[k].translator = "Haus")

\* Scenario E has been validated at the default threshold.
C15_Witness ==
    /\ Tenths = 3
    /\ \E k \in Scored(results.valid) :
           results.valid[k].ocr = "Haus" /\ results.valid[k].translator = "Haus"

\* the entries of the three lists, as pairs
Filed(list) == [k \in DOMAIN list |-> <<list[k].foreign, list[k].ocr>>]

\* how often an entry occurs in a list
Occurrences(list, entry) == Cardinality({k \in DOMAIN list : Filed(list)[k] = entry})

\* the entries handled so far are spread over the three lists
Partition ==
    pc \in {"loop", "returned"}
    => /\ Len(results.valid) + Len(results.suspicious) + Len(results.errors) = i
       /\ \A k \in 1..i :
              Occurrences(results.valid, entries[k]) + Occurrences(results.suspicious, entries[k])
                  + Occurrences(results.errors, entries[k]) = 1
       /\ pc = "returned" => i = Len(entries)

\* the step is an iteration whose translator call returned None
CallFailed ==
    /\ Len(timeline') > Len(timeline)
    /\ timeline'[Len(timeline) + 1] = <<"translate", i + 1, None>>

\* C16: an iteration whose translator call fails records the entry under
\* errors and the loop goes on with the next entry; at every moment the
\* entries handled so far are each in exactly one of the lists valid,
\* suspicious and errors, and when the function returns these are all the
\* input entries, so that the three lengths sum to their number.
C16_ErrorsRecorded ==
    /\ []Partition
    /\ [][CallFailed =>
             /\ results'.errors = Append(results.errors, error_result(entries[i + 1]))
             /\ results'.valid = results.valid
             /\ results'.suspicious = results.suspicious
             /\ i' = i + 1
             /\ pc' = "loop"]_vars

\* A run has returned in which a translator call failed and a later entry
\* was still validated.
C16_Witness ==
    /\ pc = "returned"
    /\ Len(entries) = 3
    /\ Len(results.errors) = 1
    /\ results.errors[1].foreign = entries[1][1]
    /\ Len(results.valid) = 1
    /\ Len(results.suspicious) = 1

\* the positions of the translator calls on the timeline
Calls == {k \in DOMAIN timeline : timeline[k][1] = "translate"}

\* the calls are made one after the other in the order of the entries
CallsInOrder ==
    \A k, l \in Calls : k < l => timeline[k][2] < timeline[l][2]

\* a sleep lies between any two calls
DelayBetweenCalls ==
    \A k, l \in Calls : k < l => \E m \in (k + 1)..(l - 1) : timeline[m][1] = "sleep"

\* C17: the translator is called in entry order, one call at a time, and
\* between every two consecutive calls the delay of time.sleep elapses,
\* whatever the earlier call came to (valid, suspicious or error).
C17_DelayBetweenCalls == CallsInOrder /\ DelayBetweenCalls

\* the entries handled so far that have a side of fewer than two characters
ShortHandled == {k \in 1..i : Len(entries[k][1]) < 2 \/ Len(entries[k][2]) < 2}

\* C18: an entry whose headword or OCR translation has fewer than two
\* characters is filed under suspicious with the reason "Entry too short"
\* and similarity 0, it is in neither of the other lists, and the translator
\* was not called for it.
C18_TooShort ==
    pc \in {"loop", "returned"}
    => \A k \in ShortHandled :
           /\ \E j \in DOMAIN results.suspicious :
                  /\ Filed(results.suspicious)[j] = entries[k]
                  /\ results.suspicious[j].reason = "Entry too short"
                  /\ results.suspicious[j].similarity = FZero
                  /\ "seq_similarity" \notin DOMAIN results.suspicious[j]
           /\ Occurrences(results.suspicious, entries[k]) = 1
           /\ Occurrences(results.valid, entries[k]) = 0
           /\ Occurrences(results.errors, entries[k]) = 0
           /\ \A c \in Calls : timeline[c][2] # k

\* A run with a one-letter headword, a one-letter translation and a
\* translated entry has returned.
C18_Witness ==
    /\ pc = "returned"
    /\ Len(results.suspicious) = 2
    /\ results.suspicious[1].reason = "Entry too short"
    /\ results.suspicious[1].foreign = "à"
    /\ results.suspicious[2].reason = "Entry too short"
    /\ results.suspicious[2].ocr = "K"
    /\ Calls # {}

-----------------------------------------------------------------------------
(* The claim about the extraction, checked under ExtractSpec.              *)

RECURSIVE Contributions(_, _)
\* the lines of the successful calls among the first k of the log, in order
Contributions(log, k) ==
    IF k = 0 THEN <<>>
    ELSE Contributions(log, k - 1) \o (IF log[k].raised THEN <<>> ELSE log[k].lines)

\* the text collected so far is what the successful calls returned, the
\* calls were made for the images in sorted order, and at the return every
\* image has been tried
Concatenated ==
    pc \in {"images", "returned"}
    => /\ lines = Contributions(ocr_log, Len(ocr_log))
       /\ Len(ocr_log) = i
       /\ \A k \in 1..i : ocr_log[k].image = images[k]
       /\ \A k, l \in DOMAIN images : k < l => StrLess(images[k], images[l])
       /\ Range(images) = {f \in listing : \E ext \in {".jpg", ".jpeg", ".png", ".bmp", ".gif"} :
                                                endswith(lower(f), ext)}
       /\ pc = "returned" => i = Len(images)

\* the step is an OCR call that raises
OcrRaised == Len(ocr_log') > Len(ocr_log) /\ ocr_log'[Len(ocr_log')].raised

\* C19: extract_all_images returns the lines of the images whose OCR call
\* succeeded, concatenated in the sorted order of the image names; a call
\* that raises adds no line and the loop goes on with the next image.
C19_Concatenation ==
    /\ []Concatenated
    /\ [][OcrRaised => (lines' = lines /\ pc' = "images" /\ i' = i + 1)]_vars

\* Three images were tried; the second call raised and the first and the
\* third contributed different lines.
C19_Witness ==
    /\ pc = "returned"
    /\ Len(ocr_log) >= 3
    /\ ~ ocr_log[1].raised /\ ocr_log[1].lines = <<"Vocabulary">>
    /\ ocr_log[2].raised
    /\ ~ ocr_log[3].raised /\ ocr_log[3].lines = <<"house [haus]", "Haus">>
    /\ lines = <<"Vocabulary", "house [haus]", "Haus">>
    /\ images[1] = "Page3.PNG"

-----------------------------------------------------------------------------
(* The claim about the imports, checked under ImportSpec.                  *)

\* no two rows have the same headword and source
OneRowPerPair ==
    \A k, l \in DOMAIN vocabulary_table :
        (/\ vocabulary_table[k].foreign_word = vocabulary_table[l].foreign_word
         /\ vocabulary_table[k].source_file = vocabulary_table[l].source_file) => k = l

\* the rows that were in the table when the call in progress began
Existing ==
    SubSeq(vocabulary_table, 1, Len(vocabulary_table) - (IF pc = "importing" THEN imported ELSE 0))

\* the line about to be read has two fields
HasFields == pc = "importing" /\ i < Len(lines) /\ contains(strip(lines[i + 1]), "\t")

\* the headword of the line about to be read
NextHeadword == strip(split_on(strip(lines[i + 1]), "\t")[1])

\* the headword of the line about to be read is in the table for the source
NextIsKnown ==
    \E k \in DOMAIN vocabulary_table :
        /\ vocabulary_table[k].foreign_word = NextHeadword
        /\ vocabulary_table[k].source_file = source_name

\* a file imported, with the same source, after a call for it had returned
\* adds no row
SecondImportAddsNothing ==
    \A k, l \in DOMAIN imports :
        (/\ k < l
         /\ imports[k].outcome = "returned" /\ imports[l].outcome = "returned"
         /\ imports[k].anki_file = imports[l].anki_file
         /\ imports[k].source = imports[l].source) => imports[l].imported = 0

\* C20: the table never holds two rows with the same headword and source;
\* a line whose headword is already there for the source, from an earlier
\* call or from an earlier line of the same file, is skipped and any other
\* line with two fields adds one row; no step changes or removes a row
\* that was there when the call began; and a second import of a file adds
\* no row.
C20_InsertIfAbsent ==
    /\ []OneRowPerPair
    /\ []SecondImportAddsNothing
    /\ [][/\ SubSeq(vocabulary_table', 1, Len(Existing)) = Existing
          /\ (HasFields /\ i' = i + 1 /\ NextIsKnown)
             => (vocabulary_table' = vocabulary_table /\ skipped' = skipped + 1)
          /\ (HasFields /\ i' = i + 1 /\ ~ NextIsKnown)
             => /\ Len(vocabulary_table') = Len(vocabulary_table) + 1
                /\ vocabulary_table'[Len(vocabulary_table')].foreign_word = NextHeadword
                /\ vocabulary_table'[Len(vocabulary_table')].source_file = source_name
                /\ imported' = imported + 1]_vars

\* The same file was imported twice: the first call skipped the headword
\* repeated inside the file, the second call skipped every line.
C20_Witness ==
    /\ pc = "idle"
    /\ Len(imports) = 2
    /\ imports[1].anki_file = "unit-2/anki_france_unit-2.txt"
    /\ imports[2] = [imports[1] EXCEPT !.imported = 0, !.skipped = 3]
    /\ imports[1].outcome = "returned"
    /\ imports[1].imported = 2
    /\ imports[1].skipped = 1
    /\ Len(vocabulary_table) = 2


-----------------------------------------------------------------------------
(* The claims about the translation collectors, checked under Spec.        *)

\* C21: in every collector of a translation over several lines (the lines
\* between a headword and its annotation, the lines after the annotation,
\* the reflexive collector and the fallback collector) a fragment that ends
\* in a hyphen is joined to the next fragment without the hyphen and without
\* the separator, so no translation found holds a hyphen followed by '; '
C21_HyphenJoined ==
    \A k \in 1..Len(vocabulary) : ~ contains(vocabulary[k][2], "-; ")

\* the lines up to and including index j
UpTo(ls, j) == SubSeq(ls, 1, Min2(j + 1, Len(ls)))

\* the index of the annotation line of a headword alone on line idx
PronOf(ls, idx) == FindPron(ls, idx + 1, Min2(idx + 4, Len(ls)))

\* a line a collector takes as a fragment of the translation
Fragment(t) ==
    /\ t # "" /\ ~ should_skip_line(t) /\ ~ is_english_sentence(t)
    /\ (is_likely_german(t) \/ is_continuation(t))
    /\ Len(Cleaned(t)) > 1

\* no trailing hyphen and no trailing function word
Complete(t) == ~ endswith(Cleaned(t), "-") /\ ~ looks_incomplete(Cleaned(t))

\* the first line a collector looks at, for the step taken at line idx
CollectFrom(ls, idx, pattern) ==
    IF pattern = "split" THEN PronOf(ls, idx) + 1 ELSE idx + 1

\* the fragments collected when the input ends with line j
PartsUpTo(ls, idx, pattern, j) ==
    IF pattern = "split"
    THEN SplitAfter(UpTo(ls, j), PronOf(ls, idx) + 1, Min2(PronOf(ls, idx) + 12, j + 1),
             SplitBetween(ls, idx + 1, PronOf(ls, idx), <<>>))
    ELSE FallbackCollect(UpTo(ls, j), idx + 1, Min2(idx + 10, j + 1), <<>>)

\* the complete fragments after the start of the collection
CompleteFragments(ls, idx, pattern) ==
    {j \in CollectFrom(ls, idx, pattern)..(Len(ls) - 1) :
        Fragment(Line(ls, j)) /\ Complete(Line(ls, j))}

\* the fragments that end the collection: a likely translation that is
\* complete, or a continuation that is closed by a parenthesis or that has
\* no trailing hyphen and is not the only fragment so far
StoppingFragments(ls, idx, pattern) ==
    {j \in CollectFrom(ls, idx, pattern)..(Len(ls) - 1) :
        /\ Fragment(Line(ls, j))
        /\ IF is_likely_german(Line(ls, j)) THEN Complete(Line(ls, j))
           ELSE \/ endswith(Cleaned(Line(ls, j)), ")")
                \/ /\ ~ endswith(Cleaned(Line(ls, j)), "-")
                   /\ Len(PartsUpTo(ls, idx, pattern, j)) >= 2}

\* the step taken finds the same entry when the input ends after line j
SameWithout(j) == english_step(UpTo(lines, j), i).add = Emitted

Collecting == Scanning /\ last' \in {"split", "fallback"}

StopLines(ls, idx, pattern) ==
    {j \in CollectFrom(ls, idx, pattern)..(Len(ls) - 1) :
        FallbackStopEntry(Line(ls, j)) \/ SplitStopPron(Line(ls, j))}

\* C23: in the collector after a split annotation and in the fallback
\* collector the collection ends at the first following line that is
\* another headword with annotation or a bare annotation line: the entry
\* holds no text of that line or of a later one
C23_StopsAtAnnotation ==
    [][Collecting /\ StopLines(lines, i, last') # {}
       => SameWithout(SetMin(StopLines(lines, i, last')) - 1)]_vars

\* the step at the cursor is the same when the input ends n lines below it
SameWithin(n) == english_step(UpTo(lines, i + n), i) = english_step(lines, i)

\* C24 as stated: with the cursor at line i no line with an index greater
\* than i + 12 is read
C24_TwelveLines == Scanning => SameWithin(12)

\* C24: with the cursor at line i no line with an index greater than i + 14
\* is read: the annotation is looked for on the three lines after the
\* headword and the translation on the eleven lines after the annotation
C24_FourteenLines == Scanning => SameWithin(14)

\* The step on the long page took the fragment of line 14 and left the
\* line after it alone.
C24_Witness ==
    /\ lines = LongPage
    /\ last = "split"
    /\ i = 2
    /\ vocabulary = << <<"to compromise", "Kompromiss-">> >>

-----------------------------------------------------------------------------
(* The claims about the rejection filter and the cursor, checked under     *)
(* Spec.                                                                   *)

Filtering == pc = "scan" /\ pc' = "dedup"

\* the entry is in the list after the step
Kept(entry) == \E k \in 1..Len(vocabulary') : vocabulary'[k] = entry

HasDiacritic(text) == \E c \in german_indicators : contains(text, c)

\* the lower-cased words of the headword
Tokens(text) == split(lower(text))

FunctionWordsOnly(text) ==
    Tokens(text) # <<>> /\ \A k \in 1..Len(Tokens(text)) : Tokens(text)[k] \in german_words

SomeFunctionWord(text) == \E k \in 1..Len(Tokens(text)) : Tokens(text)[k] \in german_words

\* C25 as stated: the filter drops an entry for a headword that looks like
\* German only when the headword holds a diacritic or consists solely of
\* function words; a headword that holds one function word among other
\* words is not dropped by this rule
C25_SolelyFunctionWords ==
    [][Filtering =>
          \A k \in 1..Len(vocabulary) :
              (looks_like_german(vocabulary[k][1]) /\ ~ Kept(vocabulary[k]))
              => (HasDiacritic(vocabulary[k][1]) \/ FunctionWordsOnly(vocabulary[k][1]))]_vars

\* C25: the filter drops an entry for a headword that looks like German
\* exactly when the headword holds a diacritic or one of its lower-cased
\* words is a function word, whatever the other words are
C25_AnyFunctionWord ==
    [][Filtering =>
          \A k \in 1..Len(vocabulary) :
              /\ looks_like_german(vocabulary[k][1])
                 <=> (HasDiacritic(vocabulary[k][1]) \/ SomeFunctionWord(vocabulary[k][1]))
              /\ (HasDiacritic(vocabulary[k][1]) \/ SomeFunctionWord(vocabulary[k][1]))
                 => ~ Kept(vocabulary[k])]_vars

\* The entry of the headword 'rock und roll' was found and the filter
\* dropped it.
C25_Witness ==
    /\ lines = FunctionWordPage
    /\ pc = "dedup"
    /\ english_loop(lines, 0, <<>>) = << <<"rock und roll", "Musik">> >>
    /\ vocabulary = <<>>

\* the cursor after the iteration at idx
NextCursor(ls, idx, language) ==
    IF language = "english" THEN english_step(ls, idx).i ELSE french_step(ls, idx, language).i

RECURSIVE IterationsFrom(_, _, _)
\* the iterations the loop makes from the cursor idx on
IterationsFrom(ls, idx, language) ==
    IF idx >= Len(ls) THEN 0
    ELSE 1 + IterationsFrom(ls, NextCursor(ls, idx, language), language)

\* C26: both parsers terminate: every iteration of the outer loop moves the
\* cursor forward by one or by two lines and never back, the cursor stays
\* within the page, the loop makes at most len(lines) iterations, and the
\* parser returns
C26_Terminates ==
    /\ []((pc = "scan" /\ i < Len(lines)) => CursorStep.i \in {i + 1, i + 2})
    /\ [][i' >= i /\ ((pc = "scan" /\ i < Len(lines)) => i' = CursorStep.i)]_vars
    /\ [](i <= Len(lines))
    /\ [](IterationsFrom(lines, i, args.language) <= Len(lines) - i)
    /\ [](pc \in {"scan", "dedup", "done"})
    /\ <>(pc = "done")

\* The French parser has returned after an iteration that moved the cursor
\* by two lines and one that moved it by one.
C26_Witness ==
    /\ args.language = "french"
    /\ lines = <<"Vocabulaire", "un sweat-shirt", "ein Sweatshirt", "12">>
    /\ pc = "done"
    /\ i = 4
    /\ result = << <<"un sweat-shirt", "ein Sweatshirt">> >>

\* The English parser has returned from the page whose first iteration
\* moved the cursor by two lines.
C26_WitnessEnglish ==
    /\ args.language = "english"
    /\ lines = ScenarioB
    /\ pc = "done"
    /\ i = 3
    /\ result = << <<"to compromise", "Kompromisse eingehen">> >>

RECURSIVE VisitedFrom(_, _)
\* the cursor positions of the English loop from idx on
VisitedFrom(ls, idx) ==
    IF idx >= Len(ls) THEN {}
    ELSE {idx} \cup VisitedFrom(ls, english_step(ls, idx).i)

\* the page with line j blank
Blank(ls, j) == [ls EXCEPT ![j + 1] = ""]

\* the iteration at line k takes line j as its translation or as a part of
\* it: the text of the line is in the translation, and without the line
\* the iteration finds another entry or none
UsedAsTranslation(ls, k, j) ==
    /\ j > k
    /\ english_step(ls, k).add # <<>>
    /\ Cleaned(Line(ls, j)) # ""
    /\ contains(english_step(ls, k).add[1][2], Cleaned(Line(ls, j)))
    /\ english_step(Blank(ls, j), k).add # english_step(ls, k).add

\* the iteration at line j finds an entry, the headword taken from line j,
\* and the entry is returned
HeadwordReturned(ls, j) ==
    /\ english_step(ls, j).add # <<>>
    /\ \E n \in 1..Len(result) : result[n] = english_step(ls, j).add[1]

\* C28: no line of the page is used both as the translation, or a part of
\* the translation, of one entry returned and as the headword of another
C28_NoLineTwice ==
    pc = "done" =>
        \A k \in VisitedFrom(lines, 0) : \A j \in VisitedFrom(lines, 0) :
            ~ (/\ UsedAsTranslation(lines, k, j)
               /\ HeadwordReturned(lines, k)
               /\ HeadwordReturned(lines, j))

-----------------------------------------------------------------------------
(* create_enriched_anki_file (validate_vocabulary.py, lines 304-350),      *)
(* called by main with the entries loaded and the results of the           *)
(* validation (line 430).                                                  *)

\* the key of the lookup dictionaries of lines 311-312
PairOf(e) == <<e.foreign, e.ocr>>

\* key in valid_pairs, key in suspicious_pairs
HasPair(list, key) == \E k \in 1..Len(list) : PairOf(list[k]) = key

\* suspicious_pairs[key]: the dict comprehension keeps the last entry of a
\* key
LastOfPair(list, key) == list[SetMax({k \in 1..Len(list) : PairOf(list[k]) = key})]

\* line 331: azure_translation and azure_translation.lower().strip() !=
\* translation.lower().strip()
has_alternative(entry, translation) ==
    /\ "seq_similarity" \in DOMAIN entry
    /\ entry.translator # ""
    /\ strip(lower(entry.translator)) # strip(lower(translation))

\* lines 325-341: the key is in suspicious_pairs
EnrichSuspicious(acc, foreign, translation, alternative, entry) ==
    IF alternative
    THEN [text |-> acc.text \o foreign \o "\t" \o translation \o " [Azure: " \o entry.translator \o "]\n",
          count |-> acc.count + 1, enriched_count |-> acc.enriched_count + 1]
    ELSE [text |-> acc.text \o foreign \o "\t" \o translation \o "\n",
          count |-> acc.count + 1, enriched_count |-> acc.enriched_count]

\* lines 318-347: one iteration of the loop over original_entries
EnrichEntry(acc, foreign, translation, res) ==
    IF HasPair(res.valid, <<foreign, translation>>)
    THEN [acc EXCEPT !.text = @ \o foreign \o "\t" \o translation \o "\n", !.count = @ + 1]
    ELSE IF HasPair(res.suspicious, <<foreign, translation>>)
    THEN EnrichSuspicious(acc, foreign, translation,
             has_alternative(LastOfPair(res.suspicious, <<foreign, translation>>), translation),
             LastOfPair(res.suspicious, <<foreign, translation>>))
    ELSE [acc EXCEPT !.text = @ \o foreign \o "\t" \o translation \o "\n", !.count = @ + 1]

RECURSIVE EnrichLoop(_, _, _, _)
EnrichLoop(original_entries, k, res, acc) ==
    IF k > Len(original_entries) THEN acc
    ELSE EnrichLoop(original_entries, k + 1, res,
             EnrichEntry(acc, original_entries[k][1], original_entries[k][2], res))

\* lines 314-318: the header
enriched_header(deck_name) ==
    "#separator:Tab\n" \o "#html:true\n" \o "#deck:" \o deck_name \o "\n"
    \o "#notetype:Einfach (beide Richtungen)\n"

\* the text written, and the pair returned at line 350
create_enriched_anki_file(original_entries, res, deck_name) ==
    EnrichLoop(original_entries, 1, res,
        [text |-> enriched_header(deck_name), count |-> 0, enriched_count |-> 0])

\* line 397
final_file == "final_" \o file_suffix \o ".txt"

\* line 392: the last two parts of the folder, '-' replaced and title-cased
validation_deck == "English Unit 1"

\* a deck with a pair that is there twice, as export_vocabulary writes it
\* for a pair imported from two sources
RepeatedEntries ==
    { <<<<"la maison", "Haus">>, <<"la maison", "Haus">>>>,
      <<<<"le chat", "K">>, <<"la maison", "Haus">>, <<"la maison", "Haus">>>> }

EnrichInit == ValidateStart(ValidationInputs \cup RepeatedEntries)

\* line 443
CountLine(r) ==
    "    → " \o ToString(r.count) \o " entries total, " \o ToString(r.enriched_count)
        \o " with Azure alternatives"

\* the file is written and its counts are printed
WriteEnriched(r) ==
    /\ folder' = [n \in {final_file} |-> RegularFile(r.text)]
    /\ stdout' = Append(stdout, CountLine(r))

\* lines 430 and 443: the enriched deck is written and its counts are
\* printed
CreateEnriched ==
    /\ pc = "returned"
    /\ WriteEnriched(create_enriched_anki_file(entries, results, validation_deck))
    /\ pc' = "enriched"
    /\ UNCHANGED <<lines, i, vocabulary, last, result, run, first, args, before, pending, written,
                   deleted, exit_status, entries, validate_vars, extract_vars, db_vars>>

EnrichNext == ValidateNext \/ CreateEnriched

EnrichSpec == EnrichInit /\ [][EnrichNext]_vars

-----------------------------------------------------------------------------
(* The claim about the enriched deck, checked under EnrichSpec.            *)

\* the answers of the translator for entry k: none for an entry too short
\* to be sent, None for a call that failed
AnswersFor(k) == {timeline[n][3] : n \in {m \in Calls : timeline[m][2] = k}}

\* entry k was scored and filed under suspicious
ScoredSuspicious(k, answer) ==
    ~ FGreaterEqual(entry_result(entries[k], answer, raw_text).similarity, args.threshold)

\* the translator gave entry k, filed under suspicious, an answer that
\* differs from the OCR translation after lower-casing and trimming
Alternatives(k) ==
    {a \in TranslatorAnswers :
        /\ <<a>> \in AnswersFor(k)
        /\ ScoredSuspicious(k, a)
        /\ strip(lower(a)) # strip(lower(entries[k][2]))}

\* the line the claim gives entry k
ClaimedLine(k) ==
    IF Alternatives(k) = {}
    THEN entries[k][1] \o "\t" \o entries[k][2]
    ELSE entries[k][1] \o "\t" \o entries[k][2] \o " [Azure: "
         \o (CHOOSE a \in Alternatives(k) : TRUE) \o "]"

\* the lines of the file after the four lines of the header
EnrichedLines(text) == SubSeq(split_on(text, "\n"), 5, Len(split_on(text, "\n")) - 1)

\* C27: the enriched deck has exactly one body line per original entry, in
\* the order of the entries and with the headword unchanged; the line of a
\* valid, errored or unprocessed entry has the translation verbatim, the
\* line of a suspicious entry has ' [Azure: <translator result>]' appended
\* exactly when the translator gave a result that differs from the OCR
\* translation after case-folding and trimming; the count returned is the
\* number of original entries
C27_EnrichedDeck ==
    pc = "enriched" =>
        /\ EnrichedLines(folder[final_file].text) = [k \in 1..Len(entries) |-> ClaimedLine(k)]
        /\ startswith(stdout[Len(stdout)],
                      "    → " \o ToString(Len(entries)) \o " entries total, ")

-----------------------------------------------------------------------------
(* vocabulary_db.py: correct_entry (lines 287-321), export_vocabulary      *)
(* (lines 423-454) and interactive_correct (lines 457-509) on one SQLite   *)
(* file.  vocabulary_table and corrections hold what is committed.  A      *)
(* connection that has executed an UPDATE or INSERT holds the write lock   *)
(* of the file until it commits or is closed; a statement of another       *)
(* connection that writes waits for the lock for the timeout of            *)
(* sqlite3.connect (5 seconds) and then raises OperationalError.  An       *)
(* optional text is None or <<text>>; a similarity is in hundredths.       *)

\* the second connection cannot write while the transaction of the session
\* is open
locked(open_transaction) == open_transaction # <<>>

\* the longest sequence of correct commands
MaxCommands == 2

\* a row of vocabulary as the schema of lines 55-70 has it
VocabularyRow(id, foreign_word, translation, source_file, status, similarity, translator_result) ==
    [id |-> id, foreign_word |-> foreign_word, translation |-> translation,
     corrected_translation |-> None, source_file |-> source_file, status |-> status,
     similarity_score |-> similarity, translator_result |-> translator_result,
     ocr_context |-> None, updated_at |-> 0]

\* the tables a session may find
SessionTables ==
    { << VocabularyRow(1, "la maison", "Haus", "unit1", "suspicious", 30, "Hof"),
         VocabularyRow(2, "le chat", "Katze", "unit2", "suspicious", 10, "Kater"),
         VocabularyRow(3, "le mot", "Wort", "unit1", "valid", 100, "Wort") >>,
      << VocabularyRow(1, "le mot", "Wort", "unit2", "valid", 100, "Wort"),
         VocabularyRow(2, "la maison", "Haus", "unit1", "suspicious", 30, "Hof") >> }

\* vocab_id of the correct command
CommandIds == {1, 2, 9}

\* what the user types as a translation
NewTranslations == {"Heim", "Kater"}

\* --source of the interactive command
SourceFilters == {None, <<"unit2">>}

\* SELECT * FROM vocabulary WHERE id = ?
RowsWithId(table, vocab_id) == {k \in DOMAIN table : table[k].id = vocab_id}

\* lines 303-306: the row appended to corrections
correction_row(table, row, new_translation, source, time) ==
    [id |-> Len(table) + 1, vocabulary_id |-> row.id, old_translation |-> row.translation,
     new_translation |-> new_translation, correction_type |-> "manual",
     correction_source |-> source, created_at |-> time]

\* an UPDATE that replaces the translation of the entry
corrected_row_overwrites(row, new_translation, time) ==
    [row EXCEPT !.translation = new_translation, !.corrected_translation = <<new_translation>>,
                !.status = "corrected", !.updated_at = time]

\* lines 309-313: the UPDATE of the entry
corrected_row(row, new_translation, time) ==
    [row EXCEPT !.corrected_translation = <<new_translation>>, !.status = "corrected",
                !.updated_at = time]

\* lines 318-321
CorrectedMessage(row, new_translation) ==
    <<"Corrected entry " \o ToString(row.id) \o ":", "  Foreign: " \o row.foreign_word,
      "  Old: " \o row.translation, "  New: " \o new_translation>>

\* lines 289-321 where no statement raises: the two tables after the call
\* and what it prints; time is CURRENT_TIMESTAMP
correct_entry(table, history, vocab_id, new_translation, source, time) ==
    IF RowsWithId(table, vocab_id) = {}
    THEN [vocabulary |-> table, corrections |-> history,
          said |-> <<"Entry " \o ToString(vocab_id) \o " not found">>]
    ELSE LET k == CHOOSE x \in RowsWithId(table, vocab_id) : TRUE
         IN [vocabulary |-> [table EXCEPT ![k] = corrected_row(@, new_translation, time)],
             corrections |-> Append(history,
                 correction_row(history, table[k], new_translation, source, time)),
             said |-> CorrectedMessage(table[k], new_translation)]

\* the clock of the database at a statement
Clock == {now, now + 1}

\* the variables the database commands leave alone
session_idle == <<lines, i, vocabulary, last, result, run, first, before, pending, written,
                  deleted, exit_status, entries, validate_vars, extract_vars, source_name,
                  imported, skipped, imports>>

SessionInit ==
    /\ vocabulary_table \in SessionTables
    /\ imports = <<>>
    /\ NoImport
    /\ NoSession
    /\ pc = "idle"
    /\ args = [command |-> ""]
    /\ lines = <<>>
    /\ raw_text = ""
    /\ vocabulary = <<>>
    /\ NoScan
    /\ folder = EmptyFolder
    /\ before = EmptyFolder
    /\ pending = {}
    /\ written = {}
    /\ deleted = {}
    /\ stdout = <<>>
    /\ exit_status = -1
    /\ entries = <<>>
    /\ results = [valid |-> <<>>, suspicious |-> <<>>, errors |-> <<>>]
    /\ timeline = <<>>
    /\ NoExtraction

RECURSIVE OrderBySimilarity(_, _)
\* ORDER BY similarity_score ASC of the rows at the positions S; rows of
\* one similarity come in the order of the table
OrderBySimilarity(table, S) ==
    IF S = {} THEN <<>>
    ELSE LET k == CHOOSE x \in S : \A y \in S :
                      \/ table[x].similarity_score < table[y].similarity_score
                      \/ (table[x].similarity_score = table[y].similarity_score /\ x <= y)
         IN <<table[k]>> \o OrderBySimilarity(table, S \ {k})

RECURSIVE OrderBySource(_, _)
\* ORDER BY source_file, id of the rows at the positions S
OrderBySource(table, S) ==
    IF S = {} THEN <<>>
    ELSE LET k == CHOOSE x \in S : \A y \in S :
                      \/ x = y
                      \/ StrLess(table[x].source_file, table[y].source_file)
                      \/ (table[x].source_file = table[y].source_file /\ table[x].id < table[y].id)
         IN <<table[k]>> \o OrderBySource(table, S \ {k})

\* source_file LIKE '%source%'
SourceLike(row, source) == source = None \/ contains(row.source_file, source[1])

\* lines 462-472: the rows the session fetches
SuspiciousRows(table, source) ==
    LET all == OrderBySimilarity(table, {k \in DOMAIN table :
                   table[k].status = "suspicious" /\ SourceLike(table[k], source)})
    IN SubSeq(all, 1, SetMin({Len(all), 20}))

\* f"{n / 100:.2f}" of a similarity in hundredths
FormatCents(n) == ToString(n \div 100) \o "." \o ToString((n % 100) \div 10) \o ToString(n % 10)

Rule70 == "======================================================================"

\* lines 478-481
SessionHeader ==
    <<"\n" \o Rule70, "INTERACTIVE CORRECTION MODE",
      "Commands: [Enter]=skip, [c]=correct, [v]=mark valid, [d]=delete, [q]=quit",
      Rule70 \o "\n">>

\* lines 484-490: what is printed of a row before its action is read
RowLines(row) ==
    <<"\nID: " \o ToString(row.id) \o " | Similarity: " \o FormatCents(row.similarity_score),
      "Foreign:    " \o row.foreign_word, "OCR:        " \o row.translation,
      "Translator: " \o row.translator_result>>
        \o (IF row.ocr_context # None /\ row.ocr_context # <<"">>
            THEN <<"Context:    " \o SubSeq(row.ocr_context[1], 1, SetMin({100, Len(row.ocr_context[1])})) \o "...">>
            ELSE <<>>)

RECURSIVE ApplyUpdates(_, _)
\* the UPDATE statements of the session, in their order, on the table
ApplyUpdates(table, updates) ==
    IF updates = <<>> THEN table
    ELSE ApplyUpdates([k \in DOMAIN table |->
                           IF table[k].id = updates[1].id
                           THEN [table[k] EXCEPT !.status = updates[1].status]
                           ELSE table[k]],
                      Tail(updates))

\* the CLI commands so far
Started == {n \in DOMAIN session_log : session_log[n].action \in {"correct", "interactive", "export"}}

\* a command can be started
Prompt == pc \in {"idle", "raised"} /\ Cardinality(Started) < MaxCommands

\* main, line 565: the command correct
CorrectCommand ==
    /\ Prompt
    /\ \E vocab_id \in CommandIds, new_translation \in NewTranslations, time \in Clock :
           LET r == correct_entry(vocabulary_table, corrections, vocab_id, new_translation,
                                  "manual", time)
           IN /\ args' = [command |-> "correct", id |-> vocab_id, translation |-> new_translation]
              /\ session_log' = Append(session_log,
                     [action |-> "correct", id |-> vocab_id, text |-> new_translation])
              /\ vocabulary_table' = r.vocabulary
              /\ corrections' = r.corrections
              /\ stdout' = stdout \o r.said
              /\ now' = time
    /\ pc' = "idle"
    /\ UNCHANGED <<folder, queue, uncommitted, session_idle>>

\* the rows of the command export, lines 428-440
ExportRows(table, status) ==
    OrderBySource(table, {k \in DOMAIN table :
        status = None \/ table[k].status \in Range(split_on(status[1], ","))})

\* lines 445-451: the line of a row
ExportLine(row, include_corrected) ==
    row.foreign_word \o "\t"
        \o (IF include_corrected /\ row.corrected_translation \notin {None, <<"">>}
            THEN row.corrected_translation[1] ELSE row.translation) \o "\n"

RECURSIVE ExportText(_, _)
ExportText(rows, include_corrected) ==
    IF rows = <<>> THEN ""
    ELSE ExportLine(rows[1], include_corrected) \o ExportText(Tail(rows), include_corrected)

\* --output and --status of the command export
exported_file == "output/exported_vocabulary.txt"
ExportStatuses == {None, <<"corrected">>, <<"valid,corrected">>}

\* lines 423-454 under main (line 569)
Export ==
    /\ Prompt
    /\ \E status \in ExportStatuses :
           LET rows == ExportRows(vocabulary_table, status)
           IN /\ args' = [command |-> "export", output |-> exported_file, status |-> status]
              /\ session_log' = Append(session_log, [action |-> "export", status |-> status])
              /\ folder' = [n \in DOMAIN folder \cup {exported_file} |->
                               IF n = exported_file THEN RegularFile(ExportText(rows, TRUE))
                               ELSE folder[n]]
              /\ Say("Exported " \o ToString(Len(rows)) \o " entries to " \o exported_file)
    /\ pc' = "idle"
    /\ UNCHANGED <<vocabulary_table, corrections, now, queue, uncommitted, session_idle>>

\* lines 459-481: the command interactive up to the first input
SessionOpen ==
    /\ Prompt
    /\ \E source \in SourceFilters :
           /\ args' = [command |-> "interactive", source |-> source]
           /\ session_log' = Append(session_log, [action |-> "interactive", source |-> source])
           /\ queue' = SuspiciousRows(vocabulary_table, source)
    /\ IF queue' = <<>>
       THEN /\ Say("No suspicious entries found!")
            /\ pc' = "idle"
       ELSE /\ stdout' = stdout \o SessionHeader \o RowLines(queue'[1])
            /\ pc' = "session"
    /\ uncommitted' = <<>>
    /\ UNCHANGED <<vocabulary_table, corrections, now, folder, session_idle>>

\* the loop goes on to the next row and prints it, or ends: lines 508-509
\* commit the statements of the session
NextRow(said, updates, table) ==
    /\ queue' = Tail(queue)
    /\ IF Tail(queue) = <<>>
       THEN /\ vocabulary_table' = ApplyUpdates(table, updates)
            /\ uncommitted' = <<>>
            /\ stdout' = stdout \o said
            /\ pc' = "idle"
       ELSE /\ vocabulary_table' = table
            /\ uncommitted' = updates
            /\ stdout' = stdout \o said \o RowLines(queue[2])
            /\ pc' = "session"

\* lines 496-501: v or d
SessionMark ==
    /\ pc = "session"
    /\ \E action \in {"v", "d"} :
           LET status == IF action = "v" THEN "valid" ELSE "deleted"
           IN /\ session_log' = Append(session_log, [action |-> action, id |-> queue[1].id])
              /\ NextRow(<<"Marked as " \o status>>,
                         Append(uncommitted, [id |-> queue[1].id, status |-> status]),
                         vocabulary_table)
    /\ UNCHANGED <<args, corrections, now, folder, session_idle>>

\* line 506, and lines 502-504 with an empty translation
SessionSkip ==
    /\ pc = "session"
    /\ \E action \in {"", "c"} :
           session_log' = Append(session_log, [action |-> action, id |-> queue[1].id, text |-> ""])
    /\ NextRow(<<>>, uncommitted, vocabulary_table)
    /\ UNCHANGED <<args, corrections, now, folder, session_idle>>

\* lines 494-495: q
SessionQuit ==
    /\ pc = "session"
    /\ session_log' = Append(session_log, [action |-> "q", id |-> queue[1].id])
    /\ queue' = <<>>
    /\ vocabulary_table' = ApplyUpdates(vocabulary_table, uncommitted)
    /\ uncommitted' = <<>>
    /\ pc' = "idle"
    /\ UNCHANGED <<args, stdout, corrections, now, folder, session_idle>>

\* lines 502-505: c with a translation; correct_entry opens its own
\* connection
SessionCorrect ==
    /\ pc = "session"
    /\ \E new_translation \in NewTranslations :
           /\ session_log' = Append(session_log,
                  [action |-> "c", id |-> queue[1].id, text |-> new_translation])
           /\ IF locked(uncommitted)
              THEN \* the INSERT of line 303 raises; the exception leaves
                   \* interactive_correct and main, the transaction of the
                   \* session is rolled back
                   /\ pc' = "raised"
                   /\ uncommitted' = <<>>
                   /\ queue' = <<>>
                   /\ UNCHANGED <<vocabulary_table, corrections, now, stdout>>
              ELSE \E time \in Clock :
                      LET r == correct_entry(vocabulary_table, corrections, queue[1].id,
                                             new_translation, "manual", time)
                      IN /\ now' = time
                         /\ corrections' = r.corrections
                         /\ NextRow(r.said, uncommitted, r.vocabulary)
    /\ UNCHANGED <<args, folder, session_idle>>

SessionNext ==
    \/ CorrectCommand
    \/ Export
    \/ SessionOpen
    \/ SessionMark
    \/ SessionSkip
    \/ SessionQuit
    \/ SessionCorrect

SessionSpec == SessionInit /\ [][SessionNext]_vars

-----------------------------------------------------------------------------
(* claims about the correction session and correct_entry                   *)

\* the actions of the log that change an entry
Changing(e) ==
    \/ e.action \in {"v", "d"}
    \/ e.action = "c" /\ e.text # ""
    \/ e.action = "correct" /\ RowsWithId(vocabulary_table, e.id) # {}

\* the last action of the log that changes the entry id, if there is one
ActionsOn(id) == {n \in DOMAIN session_log :
                     "id" \in DOMAIN session_log[n] /\ session_log[n].id = id
                     /\ Changing(session_log[n])}
LastActionOn(id) == session_log[SetMax(ActionsOn(id))]

\* the entry shows the action
Persisted(row, e) ==
    CASE e.action = "v" -> row.status = "valid"
      [] e.action = "d" -> row.status = "deleted"
      [] OTHER -> row.status = "corrected" /\ row.corrected_translation = <<e.text>>

\* the corrections the log asks for
CorrectionsAsked == {n \in DOMAIN session_log :
                        session_log[n].action \in {"c", "correct"} /\ Changing(session_log[n])}

\* C29: in an interactive correction session every action taken is
\* persisted when the session ends: once no session is running, each entry
\* shows the last action taken on it (valid after v, deleted after d, the
\* corrected translation after c), there is one correction-history row for
\* each correction asked for, and no session has ended in an exception,
\* also where a c follows a v or d of the same session.
C29_SessionPersists ==
    pc \in {"idle", "raised"} =>
        /\ pc # "raised"
        /\ \A k \in DOMAIN vocabulary_table :
               ActionsOn(vocabulary_table[k].id) # {} =>
                   Persisted(vocabulary_table[k], LastActionOn(vocabulary_table[k].id))
        /\ Len(corrections) = Cardinality(CorrectionsAsked)

\* the step is a call of correct_entry that returns, for id and text
Corrects(id, text) ==
    /\ Len(session_log') = Len(session_log) + 1
    /\ LET e == session_log'[Len(session_log')]
       IN /\ e.action \in {"c", "correct"}
          /\ e.id = id
          /\ e.text = text
          /\ text # ""
    /\ pc' # "raised"

\* the step calls correct_entry and it returns
CorrectsSome == \E id \in CommandIds, text \in NewTranslations : Corrects(id, text)

\* the columns of an entry that no correction changes
KeptColumns(row) == [id |-> row.id, foreign_word |-> row.foreign_word, translation |-> row.translation,
               source_file |-> row.source_file, similarity_score |-> row.similarity_score,
               translator_result |-> row.translator_result, ocr_context |-> row.ocr_context]

\* C30: correct_entry on an existing id appends exactly one
\* correction-history row (for that id, with the original translation as
\* old_translation) and changes only corrected_translation, status (to
\* 'corrected') and updated_at of that entry; every other row is unchanged;
\* on an unknown id it changes neither table; no other command changes the
\* correction history; and after any number of corrections the headword
\* and the original translation of every entry are those of the start.
C30_CorrectionFrame ==
    /\ [][\A id \in CommandIds, text \in NewTranslations :
              Corrects(id, text) =>
                  IF RowsWithId(vocabulary_table, id) = {}
                  THEN UNCHANGED <<vocabulary_table, corrections>>
                  ELSE /\ Len(corrections') = Len(corrections) + 1
                       /\ SubSeq(corrections', 1, Len(corrections)) = corrections
                       /\ LET c == corrections'[Len(corrections')]
                          IN /\ c.vocabulary_id = id
                             /\ c.new_translation = text
                             /\ \A k \in RowsWithId(vocabulary_table, id) :
                                    c.old_translation = vocabulary_table[k].translation
                       /\ DOMAIN vocabulary_table' = DOMAIN vocabulary_table
                       /\ \A k \in DOMAIN vocabulary_table :
                              IF vocabulary_table[k].id = id
                              THEN /\ KeptColumns(vocabulary_table'[k]) = KeptColumns(vocabulary_table[k])
                                   /\ vocabulary_table'[k].corrected_translation = <<text>>
                                   /\ vocabulary_table'[k].status = "corrected"
                              ELSE vocabulary_table'[k] = vocabulary_table[k]]_vars
    /\ [][~ CorrectsSome => corrections' = corrections]_vars
    /\ [](\E t \in SessionTables :
              /\ DOMAIN t = DOMAIN vocabulary_table
              /\ \A k \in DOMAIN t : KeptColumns(vocabulary_table[k]) = KeptColumns(t[k]))
    /\ [](\A n \in DOMAIN corrections : \A k \in DOMAIN vocabulary_table :
              vocabulary_table[k].id = corrections[n].vocabulary_id =>
                  corrections[n].old_translation = vocabulary_table[k].translation)

\* an entry corrected twice: two history rows with the original
\* translation, the entry with the second correction
C30_Witness ==
    /\ Len(corrections) = 2
    /\ corrections[1].vocabulary_id = 1 /\ corrections[2].vocabulary_id = 1
    /\ corrections[1].old_translation = "Haus" /\ corrections[1].new_translation = "Heim"
    /\ corrections[2].old_translation = "Haus" /\ corrections[2].new_translation = "Kater"
    /\ \E k \in DOMAIN vocabulary_table :
           /\ vocabulary_table[k].id = 1
           /\ vocabulary_table[k].foreign_word = "la maison"
           /\ vocabulary_table[k].translation = "Haus"
           /\ vocabulary_table[k].corrected_translation = <<"Kater">>
           /\ vocabulary_table[k].status = "corrected"
=============================================================================
